---- MODULE Spec2Model ----
(***************************************************************************)
(* State-machine model of the ai-trading-assistant core:                   *)
(*   - the Event Engine   (internal/engine/engine.go)                      *)
(*   - the Alert Service  (package alert, in internal/riskagent/agent.go)  *)
(*   - the TokenBucket rate limiter (same file)                            *)
(* Floating point quantities (price, change_pct, volume, tokens) are       *)
(* modelled as exact integers in scaled units; comparisons are the exact   *)
(* rational comparisons of the source expressions.                         *)
(***************************************************************************)
EXTENDS Integers, Sequences, FiniteSets, TLC

\* ------------------------------------------------------------------ bounds
\* Per behaviour: OnSnapshot calls started, and the last value the wall clock
\* (Unix seconds, starting at 1) reaches.
WindowMaxCalls == 3
WindowMaxClock == 2
CooldownMaxCalls == 3
CooldownMaxClock == 4
\* Per behaviour: Allow calls made, and the last tick the limiter's clock
\* reaches.
BucketMaxCalls == 12
BucketMaxClock == 3
\* Per behaviour: Handle calls made by callers, and the last tick of the
\* alert service's clock.
AlertMaxCalls == 3
AlertMaxClock == 2

\* The producers that call Engine.OnSnapshot concurrently: the poll loop and
\* the snapshot injection endpoint.
Threads == {"poll", "inject"}

\* ------------------------------------------------------------ engine state
VARIABLES
  ecfg,       \* Engine.cfg after engine.New
  estore,     \* Engine.store # nil
  ealert,     \* Engine.alertSvc # nil
  eagent,     \* Engine.agent # nil
  windows,    \* Engine.windows : symbol -> sequence of snapshots
  cooldown,   \* Engine.cooldown : key -> last trigger (Unix seconds)
  clock,      \* time.Now().Unix()
  eth,        \* one record per producer: where it is inside OnSnapshot
  events,     \* event records handed to store.InsertEventReturnID by emit
  submitted,  \* alert requests handed to alertSvc.Handle by emit
  ingested,   \* history: per symbol, every snapshot OnSnapshot appended
  gateLog,    \* history: every decision of checkCooldown
  ncalls,     \* number of OnSnapshot calls started
  inputs,     \* the snapshots producers may deliver
  inserts,    \* the outcomes an event insert may have: TRUE stored, FALSE error
  lim         \* [calls, clock]: where this behaviour stops calling and ticking

evars == <<ecfg, estore, ealert, eagent, windows, cooldown, clock, eth, events,
           submitted, ingested, gateLog, ncalls, inputs, inserts, lim>>

\* --------------------------------------------------------- limiter state
VARIABLES
  limiter,    \* Service.limiter: the TokenBucket
  mono,       \* time.Now(), in ticks of 1/TicksPerSec second since start
  allowLog,   \* history: every Allow call, with the bucket before and after
  blim        \* [calls, clock]: where this behaviour stops calling and ticking

bvars == <<limiter, mono, allowLog, blim>>

\* ----------------------------------------------------- alert service state
VARIABLES
  acfg,       \* Service.cfg in ticks, and whether Service.dt / Service.store are set
  aenv,       \* the outcomes dt.SendMarkdown and the store's inserts may have
  ainputs,    \* the requests callers may hand to Handle
  alim,       \* number of Handle calls callers make in this behaviour
  dedup,      \* Service.dedup : dedup_key -> time of the last occurrence let through
  merge,      \* Service.merge : merge_key -> mergeState.alerts
  armed,      \* history: every time.AfterFunc timer created by enqueueMerge
  timers,     \* the timers of armed that have not fired yet
  digest,     \* Service.digest : group -> pending requests
  digestDue,  \* next tick of the digest ticker
  hth,        \* one record per goroutine that may run Handle: where it is
  calls,      \* history: every Handle call started, in order of entry
  results,    \* history: call -> the Result it returned
  audit,      \* store: call -> the rows written by its recordAlert
  effects,    \* history: call -> what it appended to merge, digest, the channel
  dedupLog,   \* history: every decision of isDeduped taken under dedupMu
  flushes,    \* history: every flushMerge, with the batch it took
  digestSends, \* history: every digest document passed to the channel
  waits,      \* history: call -> what followed when the limiter refused it
  sendLog     \* history: call -> the answer of the channel to its sendNow

avars == <<acfg, aenv, ainputs, alim, dedup, merge, armed, timers, digest,
           digestDue, hth, calls, results, audit, effects, dedupLog, flushes,
           digestSends, waits, sendLog>>

\* ------------------------------------------------------------ lock state
VARIABLES
  owner,      \* mutex -> the goroutine that holds it, 0 when it is free
  flow        \* goroutine -> what is left of the operation it runs

lvars == <<owner, flow>>

\* ---------------------------------------------------- fallback decisions
VARIABLES
  dpool,      \* the EventInputs callers may hand to FallbackDecision
  decisions   \* history: every FallbackDecision call, its input and result

\* ------------------------------------------- the windows as Go slices
VARIABLES
  backing,    \* the arrays allocated by append: capacity and cells
  stored,     \* Engine.windows[symbol] as a slice: array, offset, length
  views,      \* producer -> the slice OnSnapshot handed to runRules
  appends,    \* history: the snapshots appended, in the order of e.mu
  keep        \* Engine.cfg.WindowMaxKeep, and the calls left to make

wvars == <<backing, stored, views, appends, keep>>

\* ------------------------------------------------- the market service
\* Goroutines that call Service.GetQuotesWithMeta: the poll loop and a
\* handler of GET /api/v1/quotes.
QuoteCallers == {"pollLoop", "quotesApi"}

VARIABLES
  minInterval, \* Service.minInterval, in clock readings
  lastFetch,   \* Service.lastFetch
  cache,       \* Service.cache: the symbols that have a quote
  consecutiveFailures, \* Service.consecutiveFailures
  marketNow,   \* time.Now() of the market service
  qth,         \* one record per caller: where it is inside GetQuotesWithMeta
  fetches,     \* history: every call of provider.GetQuotes
  answers,     \* history: what every GetQuotesWithMeta call returned
  qlim         \* the calls left to make, the last clock reading, the inputs

mvars == <<minInterval, lastFetch, cache, consecutiveFailures, marketNow, qth,
           fetches, answers, qlim>>

dvars == <<dpool, decisions, wvars, mvars>>

notEngine == <<bvars, avars, lvars, dvars>>
notLimiter == <<evars, avars, lvars, dvars>>

vars == <<evars, bvars, avars, lvars, dvars>>

\* ------------------------------------------------------------ TokenBucket
\* Time resolution of the limiter's clock: ticks per second.
TicksPerSec == 1
\* tokens, burst and the refill are kept in units of 1/TokenUnit token, so
\* that elapsed * ratePerS = ticks * perMinute / (60 * TicksPerSec) is exact.
TokenUnit == 60 * TicksPerSec

\* agent.go:845-858. A disabled bucket keeps the zero value of its fields.
NewTokenBucket(perMinute, burst) ==
  IF perMinute <= 0
  THEN [disabled |-> TRUE, tokens |-> 0, perMinute |-> 0, burst |-> 0,
        lastRefill |-> 0]
  ELSE LET b == IF burst <= 0 THEN perMinute ELSE burst IN
       [disabled |-> FALSE, tokens |-> b * TokenUnit, perMinute |-> perMinute,
        burst |-> b * TokenUnit, lastRefill |-> 0]

\* A refill that forgets the cap.
refillUncapped(b, now) ==
  LET elapsed == now - b.lastRefill IN
  IF elapsed <= 0 THEN b
  ELSE [b EXCEPT !.tokens = b.tokens + elapsed * b.perMinute,
                 !.lastRefill = now]

\* agent.go:910-921.
refillLocked(b, now) ==
  LET elapsed == now - b.lastRefill IN
  IF elapsed <= 0 THEN b
  ELSE LET tokens == b.tokens + elapsed * b.perMinute IN
       [b EXCEPT !.tokens = IF tokens > b.burst THEN b.burst ELSE tokens,
                 !.lastRefill = now]

\* A test that needs more than one whole token.
hasTokenStrict(b) == b.tokens > TokenUnit

\* agent.go:867: t.tokens >= 1.
hasToken(b) == b.tokens >= TokenUnit

\* agent.go:860-872: the bucket after Allow at time now, and its answer.
allowResult(b, now) ==
  IF b.disabled THEN TRUE ELSE hasToken(refillLocked(b, now))

allowBucket(b, now) ==
  IF b.disabled THEN b
  ELSE LET r == refillLocked(b, now) IN
       IF hasToken(r) THEN [r EXCEPT !.tokens = r.tokens - TokenUnit] ELSE r

LimiterIdle ==
  /\ limiter = NewTokenBucket(0, 0)
  /\ mono = 0
  /\ allowLog = <<>>
  /\ blim = [calls |-> 0, clock |-> 0]

\* ------------------------------------------------------------ the mutexes
\* engine.go:62, agent.go:473, 476, 479, 837.
LockNames == {"mu", "dedupMu", "mergeMu", "digestMu", "bucketMu"}

\* The goroutines that run the operations: producers of snapshots, callers
\* of Handle, merge timers, the digest loop.
Goroutines == {1, 2}

\* No mutex is held and no goroutine is inside an operation.
LocksIdle ==
  /\ owner = [l \in LockNames |-> 0]
  /\ flow = [g \in Goroutines |-> <<>>]

\* Nobody calls FallbackDecision from outside the engine.
NilSlice == [arr |-> 0, off |-> 0, len |-> 0]

NoView == [held |-> FALSE, slice |-> NilSlice, pos |-> 0]

\* No window is kept as a slice.
SlicesIdle ==
  /\ backing = <<>>
  /\ stored = NilSlice
  /\ views = [t \in Threads |-> NoView]
  /\ appends = <<>>
  /\ keep = [maxKeep |-> 0, calls |-> 0]

\* part_003:21: the zero time.Time, before the first successful fetch.
ZeroTime == [zero |-> TRUE, at |-> 0]

IdleQuoteCaller == [pc |-> "idle", call |-> 0, symbols |-> <<>>, now |-> 0]

\* No market service is running.
MarketIdle ==
  /\ minInterval = 0
  /\ lastFetch = ZeroTime
  /\ cache = {}
  /\ consecutiveFailures = 0
  /\ marketNow = 0
  /\ qth = [g \in QuoteCallers |-> IdleQuoteCaller]
  /\ fetches = <<>>
  /\ answers = <<>>
  /\ qlim = [calls |-> 0, clock |-> 0, inputs |-> {}]

AdvisorIdle ==
  /\ dpool = {}
  /\ decisions = <<>>
  /\ SlicesIdle
  /\ MarketIdle

\* ------------------------------------------------------------ alert service
\* Goroutines that may be inside Service.Handle: callers of the public
\* contract (API handlers, the engine) and the goroutine of a merge timer.
ApiCallers == {1, 2}
FlushCallers == {3}
Callers == ApiCallers \cup FlushCallers

PriorityHigh == "high"
PriorityMed == "med"
PriorityLow == "low"

StatusSent == "sent"
StatusSuppressed == "suppressed"
StatusQueuedDigest == "queued_digest"
StatusMergedPending == "merged_pending"

\* agent.go:429-437. A title is a base text and the count "(+n)" that
\* mergedTitle appends to it; Markdown is a sequence of lines.
AlertRequest(priority, group, title, dedupKey, mergeKey, silent) ==
  [Priority |-> priority, Group |-> group,
   Title |-> [base |-> title, more |-> 0], Markdown |-> <<>>,
   DedupKey |-> dedupKey, MergeKey |-> mergeKey, Silent |-> silent]

IdleHandler ==
  [pc |-> "idle", call |-> 0, req |-> AlertRequest("", "", "", "", "", FALSE),
   now |-> 0, deadline |-> 0, wake |-> 0]

NoEffects == [merge |-> 0, digest |-> 0, send |-> 0]

AlertIdle ==
  /\ acfg = [DedupWindow |-> 0, MergeWindow |-> 0, LowDigestInterval |-> 0,
             dt |-> FALSE, store |-> FALSE]
  /\ aenv = [send |-> {}, insert |-> {}]
  /\ ainputs = {}
  /\ alim = 0
  /\ dedup = <<>>
  /\ merge = <<>>
  /\ armed = <<>>
  /\ timers = {}
  /\ digest = <<>>
  /\ digestDue = 0
  /\ hth = [h \in Callers |-> IdleHandler]
  /\ calls = <<>>
  /\ results = <<>>
  /\ audit = <<>>
  /\ effects = <<>>
  /\ dedupLog = <<>>
  /\ flushes = <<>>
  /\ digestSends = <<>>
  /\ waits = <<>>
  /\ sendLog = <<>>


\* ------------------------------------------------------------------ symbols
\* A symbol is a sequence of one-character strings.
SH000001 == <<"s","h","0","0","0","0","0","1">>
SH600000 == <<"s","h","6","0","0","0","0","0">>
SZ000002 == <<"s","z","0","0","0","0","0","2">>
UpperSH600000 == <<" ","S","H","6","0","0","0","0","0">>
Blank == <<" ">>
Empty == <<>>

Digits == {"0","1","2","3","4","5","6","7","8","9"}

LowerChar(c) ==
  CASE c = "S" -> "s" [] c = "H" -> "h" [] c = "Z" -> "z" [] OTHER -> c

ToLower(sym) == [i \in 1..Len(sym) |-> LowerChar(sym[i])]

RECURSIVE TrimLeft(_)
TrimLeft(sym) ==
  IF sym # <<>> /\ Head(sym) = " " THEN TrimLeft(Tail(sym)) ELSE sym

RECURSIVE TrimRight(_)
TrimRight(sym) ==
  IF sym # <<>> /\ sym[Len(sym)] = " "
  THEN TrimRight(SubSeq(sym, 1, Len(sym) - 1)) ELSE sym

TrimSpace(sym) == TrimRight(TrimLeft(sym))

isStockSymbol(sym) ==
  LET s == ToLower(sym) IN
  /\ Len(s) = 8
  /\ SubSeq(s, 1, 2) \in {<<"s","h">>, <<"s","z">>}
  /\ \A i \in 3..8 : s[i] \in Digits
  /\ s # SH000001

\* -------------------------------------------------------------- engine.New
DefaultWindowSec == 300
DefaultMaPoints == 5
DefaultRatio == 3
DefaultWindowMaxKeep == 200
DefaultCooldownIndexRisk == 300
DefaultCooldownPanicDrop == 180
DefaultCooldownVolumeSpike == 180
DefaultCooldownKeyBreakDown == 600

New(c) ==
  [ IndexRisk |->
      [ Symbol  |-> IF c.IndexRisk.Symbol = Empty THEN SH000001
                    ELSE c.IndexRisk.Symbol,
        MedPct  |-> c.IndexRisk.MedPct,
        HighPct |-> c.IndexRisk.HighPct ],
    PanicDrop |->
      [ WindowSec |-> IF c.PanicDrop.WindowSec <= 0 THEN DefaultWindowSec
                      ELSE c.PanicDrop.WindowSec,
        MedPct    |-> c.PanicDrop.MedPct,
        HighPct   |-> c.PanicDrop.HighPct ],
    VolumeSpike |->
      [ MaPoints |-> IF c.VolumeSpike.MaPoints <= 1 THEN DefaultMaPoints
                     ELSE c.VolumeSpike.MaPoints,
        Ratio    |-> IF c.VolumeSpike.Ratio <= 0 THEN DefaultRatio
                     ELSE c.VolumeSpike.Ratio ],
    KeyBreakDown |->
      [ Levels   |-> c.KeyBreakDown.Levels,
        Priority |-> IF c.KeyBreakDown.Priority = "" THEN "med"
                     ELSE c.KeyBreakDown.Priority ],
    WindowMaxKeep |-> IF c.WindowMaxKeep <= 0 THEN DefaultWindowMaxKeep
                      ELSE c.WindowMaxKeep,
    CooldownSec |->
      [ IndexRisk    |-> IF c.CooldownSec.IndexRisk <= 0
                         THEN DefaultCooldownIndexRisk
                         ELSE c.CooldownSec.IndexRisk,
        PanicDrop    |-> IF c.CooldownSec.PanicDrop <= 0
                         THEN DefaultCooldownPanicDrop
                         ELSE c.CooldownSec.PanicDrop,
        VolumeSpike  |-> IF c.CooldownSec.VolumeSpike <= 0
                         THEN DefaultCooldownVolumeSpike
                         ELSE c.CooldownSec.VolumeSpike,
        KeyBreakDown |-> IF c.CooldownSec.KeyBreakDown <= 0
                         THEN DefaultCooldownKeyBreakDown
                         ELSE c.CooldownSec.KeyBreakDown ] ]

\* ------------------------------------------------------------- trimWindow
\* A trim that keeps the oldest entries instead of the newest.
trimWindowKeepsOldest(c, window) ==
  LET maxKeep == c.WindowMaxKeep IN
  IF maxKeep > 0 /\ Len(window) > maxKeep
  THEN SubSeq(window, 1, maxKeep)
  ELSE window

trimWindow(c, window) ==
  LET maxKeep == c.WindowMaxKeep IN
  IF maxKeep > 0 /\ Len(window) > maxKeep
  THEN SubSeq(window, Len(window) - maxKeep + 1, Len(window))
  ELSE window

\* ------------------------------------------------------------------ rules
\* A rule that meets its condition yields one firing: the arguments of the
\* checkCooldown and emit calls the rule makes.
Firing(rule, sev, cd, evidence) ==
  [rule |-> rule, sev |-> sev, cd |-> cd, evidence |-> evidence]

\* An INDEX_RISK rule that tests the medium threshold first.
ruleIndexRiskMedFirst(c, s) ==
  IF s.Symbol # ToLower(c.IndexRisk.Symbol) THEN <<>>
  ELSE IF s.ChangePct = 0 THEN <<>>
  ELSE IF s.ChangePct <= -c.IndexRisk.MedPct
  THEN << Firing("INDEX_RISK", "med", c.CooldownSec.IndexRisk,
                 [change_pct |-> s.ChangePct, threshold |-> c.IndexRisk.MedPct]) >>
  ELSE <<>>

\* An INDEX_RISK rule that goes on to the med key after the high key.
ruleIndexRiskBothKeys(c, s) ==
  IF s.Symbol # ToLower(c.IndexRisk.Symbol) THEN <<>>
  ELSE IF s.ChangePct = 0 THEN <<>>
  ELSE (IF s.ChangePct <= -c.IndexRisk.HighPct
        THEN << Firing("INDEX_RISK", "high", c.CooldownSec.IndexRisk,
                       [change_pct |-> s.ChangePct,
                        threshold |-> c.IndexRisk.HighPct]) >>
        ELSE <<>>)
       \o (IF s.ChangePct <= -c.IndexRisk.MedPct
           THEN << Firing("INDEX_RISK", "med", c.CooldownSec.IndexRisk,
                          [change_pct |-> s.ChangePct,
                           threshold |-> c.IndexRisk.MedPct]) >>
           ELSE <<>>)

ruleIndexRisk(c, s) ==
  IF s.Symbol # ToLower(c.IndexRisk.Symbol) THEN <<>>
  ELSE IF s.ChangePct = 0 THEN <<>>
  ELSE IF s.ChangePct <= -c.IndexRisk.HighPct
  THEN << Firing("INDEX_RISK", "high", c.CooldownSec.IndexRisk,
                 [change_pct |-> s.ChangePct, threshold |-> c.IndexRisk.HighPct]) >>
  ELSE IF s.ChangePct <= -c.IndexRisk.MedPct
  THEN << Firing("INDEX_RISK", "med", c.CooldownSec.IndexRisk,
                 [change_pct |-> s.ChangePct, threshold |-> c.IndexRisk.MedPct]) >>
  ELSE <<>>

\* A scan that passes over a snapshot older than cutoff and goes on.
RECURSIVE scanMaxPriceSkipsOld(_, _, _, _)
scanMaxPriceSkipsOld(window, i, cutoff, maxPrice) ==
  IF i < 1 THEN maxPrice
  ELSE scanMaxPriceSkipsOld(window, i - 1, cutoff,
         IF window[i].TS >= cutoff /\ window[i].Price > maxPrice
         THEN window[i].Price ELSE maxPrice)

\* The loop of rulePanicDrop: scan backward from index i (1-based), stop at
\* the first snapshot older than cutoff, keep the largest price seen.
RECURSIVE scanMaxPrice(_, _, _, _)
scanMaxPrice(window, i, cutoff, maxPrice) ==
  IF i < 1 THEN maxPrice
  ELSE IF window[i].TS < cutoff THEN maxPrice
  ELSE scanMaxPrice(window, i - 1, cutoff,
                    IF window[i].Price > maxPrice THEN window[i].Price
                    ELSE maxPrice)

\* drawdownPct = (s.Price - maxPrice) / maxPrice * 100 is kept as the exact
\* fraction drawdown_num / drawdown_den with drawdown_den = maxPrice > 0.
rulePanicDrop(c, s, window) ==
  IF ~isStockSymbol(s.Symbol) THEN <<>>
  ELSE IF c.PanicDrop.WindowSec <= 0 \/ Len(window) < 2 THEN <<>>
  ELSE
    LET cutoff   == s.TS - c.PanicDrop.WindowSec
        maxPrice == scanMaxPrice(window, Len(window), cutoff, 0)
        num      == (s.Price - maxPrice) * 100
        ev(thr)  == [drawdown_num |-> num, drawdown_den |-> maxPrice,
                     window_sec |-> c.PanicDrop.WindowSec, threshold |-> thr]
    IN
    IF maxPrice <= 0 THEN <<>>
    ELSE IF num <= -(c.PanicDrop.HighPct * maxPrice)
    THEN << Firing("PANIC_DROP", "high", c.CooldownSec.PanicDrop,
                   ev(c.PanicDrop.HighPct)) >>
    ELSE IF num <= -(c.PanicDrop.MedPct * maxPrice)
    THEN << Firing("PANIC_DROP", "med", c.CooldownSec.PanicDrop,
                   ev(c.PanicDrop.MedPct)) >>
    ELSE <<>>

RECURSIVE sumVolume(_, _, _)
sumVolume(window, i, last) ==
  IF i > last THEN 0
  ELSE (IF window[i].Volume > 0 THEN window[i].Volume ELSE 0)
       + sumVolume(window, i + 1, last)

RECURSIVE countVolume(_, _, _)
countVolume(window, i, last) ==
  IF i > last THEN 0
  ELSE (IF window[i].Volume > 0 THEN 1 ELSE 0)
       + countVolume(window, i + 1, last)

\* A VOLUME_SPIKE rule that needs one snapshot more than ma_points.
ruleVolumeSpikeNeedsOneMore(c, s, window) ==
  IF ~isStockSymbol(s.Symbol) THEN <<>>
  ELSE IF c.VolumeSpike.MaPoints <= 1 \/ Len(window) <= c.VolumeSpike.MaPoints
  THEN <<>>
  ELSE
    LET start  == Len(window) - c.VolumeSpike.MaPoints
        sum    == sumVolume(window, start + 1, Len(window) - 1)
        count  == countVolume(window, start + 1, Len(window) - 1)
    IN
    IF count = 0 THEN <<>>
    ELSE IF s.Volume * count >= c.VolumeSpike.Ratio * sum
    THEN << Firing("VOLUME_SPIKE", "med", c.CooldownSec.VolumeSpike,
                   [ratio_num |-> s.Volume * count, ratio_den |-> sum]) >>
    ELSE <<>>

\* ratio = s.Volume / (sum / count) >= Ratio  <=>  s.Volume * count >= Ratio * sum
ruleVolumeSpike(c, s, window) ==
  IF ~isStockSymbol(s.Symbol) THEN <<>>
  ELSE IF c.VolumeSpike.MaPoints <= 1 \/ Len(window) < c.VolumeSpike.MaPoints
  THEN <<>>
  ELSE
    LET start0 == Len(window) - c.VolumeSpike.MaPoints
        start  == IF start0 < 0 THEN 0 ELSE start0
        sum    == sumVolume(window, start + 1, Len(window) - 1)
        count  == countVolume(window, start + 1, Len(window) - 1)
    IN
    IF count = 0 THEN <<>>
    ELSE IF sum <= 0 THEN <<>>
    ELSE IF s.Volume * count >= c.VolumeSpike.Ratio * sum
    THEN << Firing("VOLUME_SPIKE", "med", c.CooldownSec.VolumeSpike,
                   [ratio_num |-> s.Volume * count, ratio_den |-> sum]) >>
    ELSE <<>>

LowerWord(p) ==
  CASE p = "HIGH" -> "high" [] p = "MED" -> "med" [] p = "LOW" -> "low"
    [] OTHER -> p

\* A KEY_BREAK_DOWN rule that also fires at the level itself.
ruleKeyBreakDownAtLevel(c, s) ==
  IF ~isStockSymbol(s.Symbol) THEN <<>>
  ELSE IF s.Symbol \notin DOMAIN c.KeyBreakDown.Levels THEN <<>>
  ELSE IF s.Price <= 0 THEN <<>>
  ELSE IF s.Price <= c.KeyBreakDown.Levels[s.Symbol]
  THEN << Firing("KEY_BREAK_DOWN", "med", c.CooldownSec.KeyBreakDown,
                 [level |-> c.KeyBreakDown.Levels[s.Symbol]]) >>
  ELSE <<>>

ruleKeyBreakDown(c, s) ==
  IF ~isStockSymbol(s.Symbol) THEN <<>>
  ELSE IF DOMAIN c.KeyBreakDown.Levels = {} THEN <<>>
  ELSE IF s.Symbol \notin DOMAIN c.KeyBreakDown.Levels THEN <<>>
  ELSE IF s.Price <= 0 THEN <<>>
  ELSE IF s.Price < c.KeyBreakDown.Levels[s.Symbol]
  THEN LET p == LowerWord(c.KeyBreakDown.Priority)
           severity == IF p # "high" THEN "med" ELSE p
       IN << Firing("KEY_BREAK_DOWN", severity, c.CooldownSec.KeyBreakDown,
                    [level |-> c.KeyBreakDown.Levels[s.Symbol]]) >>
  ELSE <<>>

\* runRules calls the four rules in this order; every rule reads only the
\* snapshot, the window slice handed to it and the configuration, so the
\* firings it will ask the cooldown gate about are fixed when it starts.
runRules(c, s, window) ==
  ruleIndexRisk(c, s) \o rulePanicDrop(c, s, window)
    \o ruleVolumeSpike(c, s, window) \o ruleKeyBreakDown(c, s)

\* ----------------------------------------------------------- engine steps
\* Reading a Go map: the value and whether the key is present.
Has(m, k) == k \in DOMAIN m
Put(m, k, v) == (k :> v) @@ m
Min(a, b) == IF a < b THEN a ELSE b

IdleThread == [pc |-> "idle", s |-> <<>>, window |-> <<>>, todo |-> <<>>,
               now |-> 0, call |-> 0]

\* A producer that leaves OnSnapshot after the first rule it emitted for.
nextRuleAbandons(th) == IdleThread

\* What a producer does after one rule is finished with: the next rule that
\* met its condition, or the return of OnSnapshot.
nextRule(th) ==
  IF Len(th.todo) <= 1 THEN IdleThread
  ELSE [th EXCEPT !.pc = "gate", !.todo = Tail(th.todo), !.now = 0]

\* engine.go:110-116: normalise the symbol, reject the empty one, default TS.
OnSnapshotEnter(t) ==
  /\ eth[t].pc = "idle"
  /\ ncalls < lim.calls
  /\ \E raw \in inputs :
       LET sym == ToLower(TrimSpace(raw.Symbol))
           s   == [raw EXCEPT !.Symbol = sym,
                              !.TS = IF raw.TS = 0 THEN clock ELSE raw.TS]
       IN
       /\ ncalls' = ncalls + 1
       /\ eth' = IF sym = Empty THEN eth
                 ELSE [eth EXCEPT ![t] = [IdleThread EXCEPT !.pc = "append",
                                            !.s = s, !.call = ncalls + 1]]
  /\ UNCHANGED <<ecfg, estore, ealert, eagent, windows, cooldown, clock,
                 events, submitted, ingested, gateLog, inputs, inserts, lim, notEngine>>

\* engine.go:118-125: under e.mu append and trim; then runRules starts with
\* the slice this call stored.
OnSnapshotAppend(t) ==
  /\ eth[t].pc = "append"
  /\ LET s      == eth[t].s
         old    == IF Has(windows, s.Symbol) THEN windows[s.Symbol] ELSE <<>>
         window == trimWindow(ecfg, Append(old, s))
         todo   == runRules(ecfg, s, window)
         hist   == IF Has(ingested, s.Symbol) THEN ingested[s.Symbol] ELSE <<>>
     IN
     /\ windows' = Put(windows, s.Symbol, window)
     /\ ingested' = Put(ingested, s.Symbol, Append(hist, s))
     /\ eth' = [eth EXCEPT ![t] =
                  IF todo = <<>> THEN IdleThread
                  ELSE [@ EXCEPT !.pc = "gate", !.window = window,
                                 !.todo = todo]]
  /\ UNCHANGED <<ecfg, estore, ealert, eagent, cooldown, clock, events,
                 submitted, gateLog, ncalls, inputs, inserts, lim, notEngine>>

cooldownKey(ruleType, symbol, severity) == <<ruleType, symbol, severity>>

\* A gate that still suppresses at exactly cooldownSec.
inCooldownInclusive(now, last, cooldownSec) == now - last <= cooldownSec

\* engine.go:438-442: the verdict of the gate on a key whose last trigger is
\* recorded.
inCooldown(now, last, cooldownSec) == now - last < cooldownSec

\* engine.go:435: checkCooldown reads the clock before it takes e.mu.
checkCooldownNow(t) ==
  /\ eth[t].pc = "gate"
  /\ eth' = [eth EXCEPT ![t].pc = "gatelock", ![t].now = clock]
  /\ UNCHANGED <<ecfg, estore, ealert, eagent, windows, cooldown, clock,
                 events, submitted, ingested, gateLog, ncalls, inputs, inserts, lim, notEngine>>

\* A gate that lets a firing pass without recording its time.
checkCooldownKeepsNoTime(t) ==
  /\ eth[t].pc = "gatelock"
  /\ LET f    == Head(eth[t].todo)
         key  == cooldownKey(f.rule, eth[t].s.Symbol, f.sev)
         now  == eth[t].now
         pass == IF f.cd <= 0 THEN TRUE
                 ELSE ~(Has(cooldown, key) /\ inCooldown(now, cooldown[key], f.cd))
     IN
     /\ cooldown' = cooldown
     /\ gateLog' = Append(gateLog, [call |-> eth[t].call, key |-> key,
                                    now |-> now, cd |-> f.cd, pass |-> pass,
                                    s |-> eth[t].s])
     /\ eth' = [eth EXCEPT ![t] =
                  IF pass /\ estore THEN [@ EXCEPT !.pc = "emit"]
                  ELSE nextRule(@)]
  /\ UNCHANGED <<ecfg, estore, ealert, eagent, windows, clock, events,
                 submitted, ingested, ncalls, inputs, inserts, lim, notEngine>>

\* A gate that records the time of every firing, suppressed or not.
checkCooldownStampsAll(t) ==
  /\ eth[t].pc = "gatelock"
  /\ LET f    == Head(eth[t].todo)
         key  == cooldownKey(f.rule, eth[t].s.Symbol, f.sev)
         now  == eth[t].now
         pass == IF f.cd <= 0 THEN TRUE
                 ELSE ~(Has(cooldown, key) /\ inCooldown(now, cooldown[key], f.cd))
     IN
     /\ cooldown' = Put(cooldown, key, now)
     /\ gateLog' = Append(gateLog, [call |-> eth[t].call, key |-> key,
                                    now |-> now, cd |-> f.cd, pass |-> pass,
                                    s |-> eth[t].s])
     /\ eth' = [eth EXCEPT ![t] =
                  IF pass /\ estore THEN [@ EXCEPT !.pc = "emit"]
                  ELSE nextRule(@)]
  /\ UNCHANGED <<ecfg, estore, ealert, eagent, windows, clock, events,
                 submitted, ingested, ncalls, inputs, inserts, lim, notEngine>>

\* A gate that records the time of a firing only when there is a store.
checkCooldownNeedsStore(t) ==
  /\ eth[t].pc = "gatelock"
  /\ LET f    == Head(eth[t].todo)
         key  == cooldownKey(f.rule, eth[t].s.Symbol, f.sev)
         now  == eth[t].now
         pass == IF f.cd <= 0 THEN TRUE
                 ELSE ~(Has(cooldown, key) /\ inCooldown(now, cooldown[key], f.cd))
     IN
     /\ cooldown' = IF pass /\ f.cd > 0 /\ estore THEN Put(cooldown, key, now)
                    ELSE cooldown
     /\ gateLog' = Append(gateLog, [call |-> eth[t].call, key |-> key,
                                    now |-> now, cd |-> f.cd, pass |-> pass,
                                    s |-> eth[t].s])
     /\ eth' = [eth EXCEPT ![t] =
                  IF pass /\ estore THEN [@ EXCEPT !.pc = "emit"]
                  ELSE nextRule(@)]
  /\ UNCHANGED <<ecfg, estore, ealert, eagent, windows, clock, events,
                 submitted, ingested, ncalls, inputs, inserts, lim, notEngine>>

\* engine.go:430-445 from e.mu.Lock on: check and update under the lock.
\* A passed gate goes on to emit, which returns at once without a store
\* (engine.go:263-266).
checkCooldownLocked(t) ==
  /\ eth[t].pc = "gatelock"
  /\ LET f    == Head(eth[t].todo)
         key  == cooldownKey(f.rule, eth[t].s.Symbol, f.sev)
         now  == eth[t].now
         pass == IF f.cd <= 0 THEN TRUE
                 ELSE ~(Has(cooldown, key) /\ inCooldown(now, cooldown[key], f.cd))
     IN
     /\ cooldown' = IF pass /\ f.cd > 0 THEN Put(cooldown, key, now)
                    ELSE cooldown
     /\ gateLog' = Append(gateLog, [call |-> eth[t].call, key |-> key,
                                    now |-> now, cd |-> f.cd, pass |-> pass,
                                    s |-> eth[t].s])
     /\ eth' = [eth EXCEPT ![t] =
                  IF pass /\ estore THEN [@ EXCEPT !.pc = "emit"]
                  ELSE nextRule(@)]
  /\ UNCHANGED <<ecfg, estore, ealert, eagent, windows, clock, events,
                 submitted, ingested, ncalls, inputs, inserts, lim, notEngine>>

\* engine.go:271-284: the discriminator of the dedup key.
windowTag(evidence) ==
  IF "window_sec" \in DOMAIN evidence THEN <<"w", evidence.window_sec>>
  ELSE IF "level" \in DOMAIN evidence THEN <<"lvl", evidence.level>>
  ELSE IF "threshold" \in DOMAIN evidence THEN <<"thr", evidence.threshold>>
  ELSE <<"base">>

\* A dedup key that leaves the severity out.
dedupKeyOfNoSeverity(eventType, symbol, evidence, severity) ==
  <<eventType, ":">> \o symbol \o <<":">> \o windowTag(evidence)

\* engine.go:285: Sprintf("%s:%s:%s:%s", ...), the text as the sequence of
\* its pieces; a symbol is a sequence of characters, a tag one or two pieces.
dedupKeyOf(eventType, symbol, evidence, severity) ==
  <<eventType, ":">> \o symbol \o <<":">> \o windowTag(evidence)
    \o <<":", severity>>

mergeKeyOf(symbol) == <<"risk", symbol>>

\* engine.go:267-301: build the event and hand it to the store; the insert
\* may fail, which is logged and leaves eventID = 0.
emitInsert(t) ==
  /\ eth[t].pc = "emit"
  /\ \E ok \in inserts :
       LET f   == Head(eth[t].todo)
           s   == eth[t].s
           sev == IF f.sev = "" THEN "med" ELSE f.sev
           nstored == Cardinality({i \in 1..Len(events) : events[i].stored})
           evt == [TS |-> s.TS, Type |-> f.rule, Severity |-> sev,
                   GroupName |-> "risk", Symbol |-> s.Symbol,
                   DedupKey |-> dedupKeyOf(f.rule, s.Symbol, f.evidence, sev),
                   MergeKey |-> mergeKeyOf(s.Symbol),
                   Evidence |-> f.evidence, call |-> eth[t].call,
                   stored |-> ok, id |-> IF ok THEN nstored + 1 ELSE 0]
       IN
       /\ events' = Append(events, evt)
       /\ eth' = [eth EXCEPT ![t] =
                    IF ealert THEN [@ EXCEPT !.pc = "handle"] ELSE nextRule(@)]
  /\ UNCHANGED <<ecfg, estore, ealert, eagent, windows, cooldown, clock,
                 submitted, ingested, gateLog, ncalls, inputs, inserts, lim, notEngine>>

\* agent.go:261-275, fallbackFromEvent: the severity of the fallback decision.
fallbackSeverity(severity) ==
  LET sev == LowerWord(severity) IN
  IF sev = "high" \/ sev = "med" THEN sev ELSE "low"

\* alert priority from the decision's severity (engine.go:311-314).
priorityOf(decisionSeverity) ==
  LET p == LowerWord(decisionSeverity) IN
  IF p # "high" /\ p # "med" THEN "low" ELSE p

\* What evaluateRisk may get back (engine.go:349-366, agent.go:130-163):
\* without an enabled advisor the fallback decision; with one, a parsed
\* answer of any severity, or an error (the call failed, or its answer
\* did not parse) together with the fallback decision.
AdvisorOutcomes(enabled) ==
  IF enabled THEN {"low", "med", "high", "error"} ELSE {"fallback"}

\* The severity of the decision emit goes on with (engine.go:307-310: the
\* error is logged, the decision returned with it is used).
decisionSeverity(outcome, eventSeverity) ==
  IF outcome \in {"error", "fallback"} THEN fallbackSeverity(eventSeverity)
  ELSE outcome

\* The id InsertEventReturnID gave the event of this emit (0 when the
\* insert failed).
lastEventID(call, rule) ==
  LET mine == {e \in 1..Len(events) :
                 events[e].call = call /\ events[e].Type = rule}
  IN IF mine = {} THEN 0
     ELSE events[CHOOSE e \in mine : \A x \in mine : x <= e].id

\* engine.go:307-327: the decision and the request handed to Handle.
emitHandle(t) ==
  /\ eth[t].pc = "handle"
  /\ \E outcome \in AdvisorOutcomes(eagent) :
       LET f == Head(eth[t].todo)
           s == eth[t].s
           sev == IF f.sev = "" THEN "med" ELSE f.sev
           dsev == decisionSeverity(outcome, sev)
       IN
       submitted' =
         Append(submitted,
           [Priority |-> priorityOf(dsev), Group |-> "risk",
            Title |-> <<s.Symbol, f.rule>>,
            DedupKey |-> dedupKeyOf(f.rule, s.Symbol, f.evidence, sev),
            MergeKey |-> mergeKeyOf(s.Symbol), Silent |-> FALSE,
            call |-> eth[t].call, advisor |-> outcome,
            EventID |-> lastEventID(eth[t].call, f.rule)])
  /\ eth' = [eth EXCEPT ![t] = nextRule(@)]
  /\ UNCHANGED <<ecfg, estore, ealert, eagent, windows, cooldown, clock,
                 events, ingested, gateLog, ncalls, inputs, inserts, lim, notEngine>>

\* The wall clock advances.
Tick ==
  /\ clock < lim.clock
  /\ clock' = clock + 1
  /\ UNCHANGED <<ecfg, estore, ealert, eagent, windows, cooldown, eth, events,
                 submitted, ingested, gateLog, ncalls, inputs, inserts, lim, notEngine>>

EngineNext ==
  \/ Tick
  \/ \E t \in Threads : OnSnapshotEnter(t)
  \/ \E t \in Threads : OnSnapshotAppend(t)
  \/ \E t \in Threads : checkCooldownNow(t)
  \/ \E t \in Threads : checkCooldownLocked(t)
  \/ \E t \in Threads : emitInsert(t)
  \/ \E t \in Threads : emitHandle(t)

\* ------------------------------------------------------ engine behaviours
Snapshot(sym, ts, price, pct, vol) ==
  [Symbol |-> sym, TS |-> ts, Price |-> price, ChangePct |-> pct,
   Volume |-> vol]

\* The configuration file's engine section before engine.New: index_risk at
\* 2% / 3%, a key level of 8 for sh600000.
RawConfig(maxKeep, cdIndex, cdStock, panicMed, panicHigh) ==
  [ IndexRisk    |-> [Symbol |-> Empty, MedPct |-> 2, HighPct |-> 3],
    PanicDrop    |-> [WindowSec |-> 2, MedPct |-> panicMed, HighPct |-> panicHigh],
    VolumeSpike  |-> [MaPoints |-> 2, Ratio |-> 3],
    KeyBreakDown |-> [Levels |-> (SH600000 :> 8), Priority |-> ""],
    WindowMaxKeep |-> maxKeep,
    CooldownSec  |-> [IndexRisk |-> cdIndex, PanicDrop |-> cdStock,
                      VolumeSpike |-> cdStock, KeyBreakDown |-> cdStock] ]

\* engine.New(cfg, store, alertSvc, agent): agents tells whether an enabled
\* advisor is passed.
EngineStart(raws, ins, stores, oks, agents, limits) ==
  /\ lim = limits
  /\ inserts = oks
  /\ ecfg \in {New(c) : c \in raws}
  /\ estore \in stores
  /\ ealert = TRUE
  /\ eagent \in agents
  /\ windows = <<>>
  /\ cooldown = <<>>
  /\ clock = 1
  /\ eth = [t \in Threads |-> IdleThread]
  /\ events = <<>>
  /\ submitted = <<>>
  /\ ingested = <<>>
  /\ gateLog = <<>>
  /\ ncalls = 0
  /\ inputs = ins

\* An engine whose decisions are the fallback's.
EngineInit(raws, ins, stores, oks, limits) ==
  EngineStart(raws, ins, stores, oks, {FALSE}, limits)

\* Producers deliver snapshots of one stock with arbitrary timestamps, in
\* any case and padding of the symbol, and snapshots without a symbol.
WindowInputs ==
  { Snapshot(SH600000, 2, 10, 0, 100),
    Snapshot(UpperSH600000, 0, 5, 0, 100),
    Snapshot(Blank, 1, 10, 0, 100) }

WindowInit ==
  /\ LimiterIdle
  /\ AlertIdle
  /\ LocksIdle
  /\ AdvisorIdle
  /\ EngineInit({RawConfig(k, 2, 2, 55, 60) : k \in {0, 1, 2}}, WindowInputs,
             {TRUE}, {TRUE},
             [calls |-> WindowMaxCalls, clock |-> WindowMaxClock])

SpecWindow == WindowInit /\ [][EngineNext]_vars

\* The index symbol is down 4% on every snapshot: INDEX_RISK high (3%) holds.
CooldownInputs ==
  { Snapshot(SH000001, 1, 10, -4, 100) }

CooldownInit ==
  /\ LimiterIdle
  /\ AlertIdle
  /\ LocksIdle
  /\ AdvisorIdle
  /\ EngineInit({RawConfig(0, 2, 2, 55, 60)}, CooldownInputs, {TRUE}, {TRUE},
             [calls |-> CooldownMaxCalls, clock |-> CooldownMaxClock])

SpecCooldown == CooldownInit /\ [][EngineNext]_vars

\* --------------------------------------------------- limiter behaviours
\* agent.go:860-872. The whole call runs under t.mu, the clock is read
\* inside refillLocked.
Allow ==
  /\ Len(allowLog) < blim.calls
  /\ limiter' = allowBucket(limiter, mono)
  /\ allowLog' = Append(allowLog,
       [at |-> mono, last |-> limiter.lastRefill, before |-> limiter.tokens,
        ok |-> allowResult(limiter, mono),
        after |-> allowBucket(limiter, mono).tokens])
  /\ UNCHANGED <<mono, blim, notLimiter>>

\* agent.go:898-908: refills under t.mu; the duration it returns is only
\* used by WaitForToken to sleep.
timeUntilNext ==
  /\ ~limiter.disabled
  /\ limiter' = refillLocked(limiter, mono)
  /\ UNCHANGED <<mono, allowLog, blim, notLimiter>>

\* agent.go:879-894: a waiter whose sleep is over at the deadline itself
\* goes round its loop without sleeping (remaining = 0) until the clock has
\* moved; every other round that is due runs before the clock moves.
spins(h) ==
  /\ mono = hth[h].deadline
  /\ hth[h].wake = mono
  /\ ~allowResult(limiter, mono)
  /\ limiter = allowBucket(limiter, mono)

\* The clock advances by one tick. A tick is long next to the steps of
\* Handle: time passes only while every call is outside Handle, between its
\* clock reading and dedupMu, or asleep in WaitForToken, and the digest
\* ticker and a due merge timer whose goroutine can start run within their
\* tick.
TickMono ==
  /\ mono < blim.clock
  /\ acfg.LowDigestInterval > 0 => mono < digestDue
  /\ \A h \in Callers : hth[h].pc \in {"idle", "dedup", "wait"}
  /\ \A h \in Callers : hth[h].pc = "wait" => mono < hth[h].wake \/ spins(h)
  /\ (\E h \in FlushCallers : hth[h].pc = "idle")
       => \A id \in timers : mono < armed[id].due
  /\ mono' = mono + 1
  /\ UNCHANGED <<limiter, allowLog, blim, notLimiter>>

BucketNext == Allow \/ timeUntilNext \/ TickMono

EngineIdle ==
  EngineInit({RawConfig(0, 0, 0, 0, 0)}, {}, {FALSE}, {TRUE},
             [calls |-> 0, clock |-> 1])

\* rate_limit configurations: the default 60 per minute with burst 10, a
\* bucket of one token refilled at 30 per minute, a bucket without burst
\* (burst = per_minute) and a disabled one.
DefaultPerMinute == 60
DefaultBurst == 10
BucketConfigs ==
  {<<DefaultPerMinute, DefaultBurst>>, <<30, 1>>, <<90, 0>>, <<0, 5>>}

BucketInit ==
  /\ limiter \in {NewTokenBucket(c[1], c[2]) : c \in BucketConfigs}
  /\ mono = 0
  /\ allowLog = <<>>
  /\ blim = [calls |-> BucketMaxCalls, clock |-> BucketMaxClock]
  /\ EngineIdle
  /\ AlertIdle
  /\ LocksIdle
  /\ AdvisorIdle

SpecBucket == BucketInit /\ [][BucketNext]_vars

\* ------------------------------------------------- alert service: functions
\* agent.go:742-753.
rank(p) ==
  IF p = PriorityHigh THEN 3
  ELSE IF p = PriorityMed THEN 2
  ELSE IF p = PriorityLow THEN 1
  ELSE 2

\* agent.go:732-740: the loop from alert i on, p being the maximum so far.
RECURSIVE maxPriorityFrom(_, _, _)
maxPriorityFrom(alerts, i, p) ==
  IF i > Len(alerts) THEN p
  ELSE maxPriorityFrom(alerts, i + 1,
         IF rank(alerts[i].Priority) > rank(p) THEN alerts[i].Priority ELSE p)

maxPriority(alerts) == maxPriorityFrom(alerts, 1, PriorityLow)

\* agent.go:755-764.
mergedTitle(alerts) ==
  IF Len(alerts) = 1 THEN alerts[1].Title
  ELSE [base |-> IF alerts[1].Title.base = "" THEN "Merged Alerts"
                 ELSE alerts[1].Title.base,
        more |-> Len(alerts) - 1]

\* agent.go:766-783: one line per alert title, followed by its markdown.
RECURSIVE mergedMarkdownFrom(_, _)
mergedMarkdownFrom(alerts, i) ==
  IF i > Len(alerts) THEN <<>>
  ELSE <<IF alerts[i].Title.base = "" THEN "(no title)"
         ELSE alerts[i].Title.base>>
       \o alerts[i].Markdown \o mergedMarkdownFrom(alerts, i + 1)

mergedMarkdown(alerts) == mergedMarkdownFrom(alerts, 1)

\* agent.go:816-823.
allSilent(alerts) == \A i \in 1..Len(alerts) : alerts[i].Silent

\* A merge that keeps the keys of the first request.
buildMergedKeepsKeys(alerts) ==
  [alerts[1] EXCEPT !.Priority = maxPriority(alerts),
                    !.Title = mergedTitle(alerts),
                    !.Markdown = mergedMarkdown(alerts),
                    !.Silent = allSilent(alerts)]

\* agent.go:721-730.
buildMerged(alerts) ==
  [alerts[1] EXCEPT !.MergeKey = "", !.DedupKey = "",
                    !.Priority = maxPriority(alerts),
                    !.Title = mergedTitle(alerts),
                    !.Markdown = mergedMarkdown(alerts),
                    !.Silent = allSilent(alerts)]

\* agent.go:825-833.
normalize(req) ==
  [req EXCEPT !.Priority = IF req.Priority = "" THEN PriorityMed
                           ELSE req.Priority,
              !.Group = IF req.Group = "" THEN "default" ELSE req.Group]

\* agent.go:544: the bound of the high-priority wait, in seconds.
WaitSeconds == 2

\* The position of a Handle call after each of its stages.
\* agent.go:534-537: low priority goes to the digest, the rest to the limiter.
afterMerge(req) == IF req.Priority = PriorityLow THEN "digest" ELSE "allow"

\* agent.go:521-528.
afterDedup(req) ==
  IF req.MergeKey # "" /\ acfg.MergeWindow > 0 THEN "merge"
  ELSE afterMerge(req)

\* agent.go:576-578: without a key or a window isDeduped answers false
\* before it reads the clock.
afterSilent(req) ==
  IF req.DedupKey = "" \/ acfg.DedupWindow <= 0 THEN afterDedup(req)
  ELSE "dedup"

\* A Handle that routes a silent request like any other.
afterNormalizeIgnoresSilent(req) == afterSilent(req)

\* A Handle that asks isDeduped before it looks at Silent.
afterNormalizeDedupsSilent(req) ==
  IF req.Silent /\ (req.DedupKey = "" \/ acfg.DedupWindow <= 0) THEN "idle"
  ELSE afterSilent(req)

\* agent.go:509-513.
afterNormalize(req) == IF req.Silent THEN "idle" ELSE afterSilent(req)

\* A Handle that forgets to return after enqueueMerge.
afterEnqueueFallsThrough(req) == afterMerge(req)

\* agent.go:523-525: after enqueueMerge the call records and returns.
afterEnqueue(req) == "idle"

\* A window that excludes its end.
withinDedupWindowStrict(now, last, window) == now - last < window

\* agent.go:583: the comparison that suppresses a duplicate.
withinDedupWindow(now, last, window) == now - last <= window

\* A timer for every enqueued request.
startsTimerAlways(m, k) == TRUE

\* agent.go:595: a timer is created when the key has no pending state.
startsTimer(m, k) == ~Has(m, k)

Del(m, k) == [x \in DOMAIN m \ {k} |-> m[x]]

CeilDiv(a, b) == (a + b - 1) \div b

ApiCalls == {c \in 1..Len(calls) : calls[c].by = 0}

\* Values no alert action changes.
alertFixed ==
  <<evars, mono, allowLog, blim, acfg, aenv, ainputs, alim, lvars, dvars>>

\* ---------------------------------------------------- alert service: steps
\* agent.go:446-451.
Result(status, err, code, msg) ==
  [Status |-> status, Error |-> err, DingTalkErrCode |-> code,
   DingTalkErrMsg |-> msg]

\* agent.go:678-690: the alert record of a call.
AlertRecord(req, res) ==
  [Priority |-> req.Priority, GroupName |-> req.Group, Title |-> req.Title,
   DedupKey |-> req.DedupKey, MergeKey |-> req.MergeKey,
   Status |-> res.Status, Channel |-> "dingtalk",
   DingTalkErrCode |-> res.DingTalkErrCode,
   DingTalkErrMsg |-> res.DingTalkErrMsg]

\* agent.go:695-704: the generic event record of a call.
EventRecord(req) ==
  [Type |-> "alert", Severity |-> req.Priority, GroupName |-> req.Group,
   Title |-> req.Title, DedupKey |-> req.DedupKey, MergeKey |-> req.MergeKey]

\* An insert that fails leaves no row.
rowsAfter(outcome, rec) == IF outcome = "ok" THEN <<rec>> ELSE <<>>

\* What the store holds of a call: the rows of its alert and event records,
\* the inserts made for it in order, and those that failed.
NoRows == [alerts |-> <<>>, events |-> <<>>, inserts |-> <<>>, failed |-> {}]

\* agent.go:677-707: InsertAlert and then InsertEvent are called once each;
\* oa and oe are their outcomes.
recordRows(prev, req, res, oa, oe) ==
  [alerts |-> prev.alerts \o rowsAfter(oa, AlertRecord(req, res)),
   events |-> prev.events \o rowsAfter(oe, EventRecord(req)),
   inserts |-> prev.inserts \o <<"alert", "event">>,
   failed |-> prev.failed \cup (IF oa = "ok" THEN {} ELSE {"alert"})
                          \cup (IF oe = "ok" THEN {} ELSE {"event"})]

\* A recordAlert whose failures reach the caller.
recordAlertPropagates(th, res) ==
  \E oa \in aenv.insert, oe \in aenv.insert :
    /\ audit' = IF ~acfg.store THEN audit
                ELSE Put(audit, th.call,
                         recordRows(IF Has(audit, th.call) THEN audit[th.call]
                                    ELSE NoRows, th.req, res, oa, oe))
    /\ results' = Put(results, th.call,
                      IF acfg.store /\ (oa # "ok" \/ oe # "ok")
                      THEN [res EXCEPT !.Error = "insert failed"] ELSE res)

\* agent.go:673-708: recordAlert of a call that ends with the Result res.
\* Without a store nothing is written; with one, a failure of either insert
\* is only logged. The Result goes to the caller unchanged.
recordAlert(th, res) ==
  /\ IF ~acfg.store THEN UNCHANGED audit
     ELSE \E oa \in aenv.insert, oe \in aenv.insert :
            audit' = Put(audit, th.call,
                         recordRows(IF Has(audit, th.call) THEN audit[th.call]
                                    ELSE NoRows, th.req, res, oa, oe))
  /\ results' = Put(results, th.call, res)

\* The call th of handler h goes on at pc; pc "idle" is its return, through
\* recordAlert, with the Result given.
proceedWith(h, th, pc, res) ==
  IF pc = "idle"
  THEN /\ hth' = [hth EXCEPT ![h] = IdleHandler]
       /\ recordAlert(th, res)
  ELSE /\ hth' = [hth EXCEPT ![h] = [th EXCEPT !.pc = pc]]
       /\ UNCHANGED <<results, audit>>

\* A step that ends, if it ends the call, with a status, an error and no
\* channel response.
proceed(h, th, pc, status, err) ==
  proceedWith(h, th, pc, Result(status, err, 0, ""))

\* agent.go:507-513: handler h enters Handle with request raw; normalize and
\* the tests up to the first access to shared state are local, and a silent
\* request is recorded and returned at once. by is the timer whose flush
\* made the call, 0 for a caller of the public contract.
enterHandle(h, raw, by) ==
  LET req == normalize(raw)
      th == [IdleHandler EXCEPT
               !.call = Len(calls) + 1, !.req = req,
               !.now = IF afterNormalize(req) = "dedup" THEN mono ELSE 0]
  IN
  /\ calls' = Append(calls, [by |-> by, req |-> raw])
  /\ effects' = Put(effects, Len(calls) + 1, NoEffects)
  /\ proceed(h, th, afterNormalize(req), StatusSuppressed, "")

Handle(h) ==
  /\ h \in ApiCallers
  /\ hth[h].pc = "idle"
  /\ \A g \in ApiCallers : g < h => hth[g].pc # "idle"
  /\ Cardinality(ApiCalls) < alim
  /\ \E raw \in ainputs : enterHandle(h, raw, 0)
  /\ UNCHANGED <<limiter, dedup, merge, armed, timers, digest, digestDue,
                 dedupLog, flushes, digestSends, waits, sendLog, alertFixed>>

\* An isDeduped that records the time of every occurrence.
isDedupedRefreshes(h) ==
  LET th == hth[h]
      k == th.req.DedupKey
      dup == Has(dedup, k)
               /\ withinDedupWindow(th.now, dedup[k], acfg.DedupWindow)
  IN
  /\ th.pc = "dedup"
  /\ dedup' = Put(dedup, k, th.now)
  /\ proceed(h, [th EXCEPT !.now = 0],
             IF dup THEN "idle" ELSE afterDedup(th.req), StatusSuppressed, "")
  /\ dedupLog' = Append(dedupLog,
       [call |-> th.call, key |-> k, now |-> th.now, pass |-> ~dup])
  /\ UNCHANGED <<limiter, merge, armed, timers, digest, digestDue, calls,
                 effects, flushes, digestSends, waits, sendLog, alertFixed>>

\* agent.go:580-588: the part of isDeduped under dedupMu, with the clock
\* value read before the lock.
isDeduped(h) ==
  LET th == hth[h]
      k == th.req.DedupKey
      dup == Has(dedup, k)
               /\ withinDedupWindow(th.now, dedup[k], acfg.DedupWindow)
  IN
  /\ th.pc = "dedup"
  /\ dedup' = IF dup THEN dedup ELSE Put(dedup, k, th.now)
  /\ proceed(h, [th EXCEPT !.now = 0],
             IF dup THEN "idle" ELSE afterDedup(th.req), StatusSuppressed, "")
  /\ dedupLog' = Append(dedupLog,
       [call |-> th.call, key |-> k, now |-> th.now, pass |-> ~dup])
  /\ UNCHANGED <<limiter, merge, armed, timers, digest, digestDue, calls,
                 effects, flushes, digestSends, waits, sendLog, alertFixed>>

\* agent.go:591-603, under mergeMu, and the return of merged_pending.
enqueueMerge(h) ==
  LET th == hth[h]
      k == th.req.MergeKey
      entry == [req |-> th.req, call |-> th.call, at |-> mono]
  IN
  /\ th.pc = "merge"
  /\ merge' = Put(merge, k,
                  Append(IF Has(merge, k) THEN merge[k] ELSE <<>>, entry))
  /\ IF startsTimer(merge, k)
     THEN /\ armed' = Append(armed, [key |-> k, due |-> mono + acfg.MergeWindow,
                                     call |-> th.call])
          /\ timers' = timers \cup {Len(armed) + 1}
     ELSE UNCHANGED <<armed, timers>>
  /\ effects' = [effects EXCEPT ![th.call].merge = @ + 1]
  /\ proceed(h, th, afterEnqueue(th.req), StatusMergedPending, "")
  /\ UNCHANGED <<limiter, dedup, digest, digestDue, calls, dedupLog, flushes,
                 digestSends, waits, sendLog, alertFixed>>

\* A Handle that lets every refused request wait.
waitsForTokenAlways(req) == TRUE

\* agent.go:543: only a high priority request waits for a token.
waitsForToken(req) == req.Priority = PriorityHigh

\* agent.go:539-545: limiter.Allow() under the bucket's lock; when it
\* refuses, a high priority request starts WaitForToken (its deadline is
\* taken at the same clock value), any other goes to the digest.
handleSendOrDigest(h) ==
  LET th == hth[h]
      high == waitsForToken(th.req)
  IN
  /\ th.pc = "allow"
  /\ limiter' = allowBucket(limiter, mono)
  /\ IF allowResult(limiter, mono)
     THEN /\ proceed(h, th, "send", "", "")
          /\ UNCHANGED waits
     ELSE /\ IF high
             THEN proceed(h, [th EXCEPT
                                !.deadline = mono + WaitSeconds * TicksPerSec,
                                !.wake = mono], "wait", "", "")
             ELSE proceed(h, th, "digest", "", "")
          /\ waits' = Put(waits, th.call,
                          [high |-> high, waited |-> 0, got |-> FALSE,
                           done |-> ~high])
  /\ UNCHANGED <<dedup, merge, armed, timers, digest, digestDue, calls,
                 effects, dedupLog, flushes, digestSends, sendLog, alertFixed>>

\* A wait that ends with a token only.
waitEndsWithTokenOnly(got, now, deadline) == got

\* agent.go:880-886.
waitEnds(got, now, deadline) == got \/ now > deadline

\* agent.go:879-895: one round of the loop of WaitForToken, entered when the
\* sleep of the round before is over: Allow, the test of the deadline,
\* timeUntilNext and the start of the next sleep.
WaitForToken(h) ==
  LET th == hth[h]
      r == refillLocked(limiter, mono)
      need == TokenUnit - r.tokens
      sleepFor == CeilDiv(need, r.perMinute)
      remaining == th.deadline - mono
      got == allowResult(limiter, mono)
  IN
  /\ th.pc = "wait"
  /\ mono >= th.wake
  /\ limiter' = allowBucket(limiter, mono)
  /\ IF waitEnds(got, mono, th.deadline)
     THEN /\ proceed(h, [th EXCEPT !.deadline = 0, !.wake = 0],
                     IF got THEN "send" ELSE "digest", "", "")
          /\ waits' = [waits EXCEPT ![th.call] =
                         [@ EXCEPT !.waited = mono - th.deadline
                                              + WaitSeconds * TicksPerSec,
                                   !.got = got, !.done = TRUE]]
     ELSE /\ proceed(h, [th EXCEPT !.wake = mono + Min(sleepFor, remaining)],
                     "wait", "", "")
          /\ UNCHANGED waits
  /\ UNCHANGED <<dedup, merge, armed, timers, digest, digestDue, calls,
                 effects, dedupLog, flushes, digestSends, sendLog, alertFixed>>

\* agent.go:624-635 and the return of queued_digest: nothing is kept when no
\* digest interval is configured.
addDigest(h) ==
  LET th == hth[h]
      group == IF th.req.Group = "" THEN "default" ELSE th.req.Group
      entry == [req |-> th.req, call |-> th.call]
  IN
  /\ th.pc = "digest"
  /\ IF acfg.LowDigestInterval <= 0
     THEN UNCHANGED <<digest, effects>>
     ELSE /\ digest' = Put(digest, group,
                Append(IF Has(digest, group) THEN digest[group] ELSE <<>>,
                       entry))
          /\ effects' = [effects EXCEPT ![th.call].digest = @ + 1]
  /\ proceed(h, th, "idle", StatusQueuedDigest, "")
  /\ UNCHANGED <<limiter, dedup, merge, armed, timers, digestDue, calls,
                 dedupLog, flushes, digestSends, waits, sendLog, alertFixed>>

\* part_002:40-80: what SendMarkdown gives back: an error and no response,
\* or the response decoded from the channel's answer.
Response(failed, code, msg) ==
  [failed |-> failed, ErrCode |-> code, ErrMsg |-> msg]

OkResponse == Response(FALSE, 0, "ok")

\* Accepted, refused with a code and a message, not delivered.
SendOutcomes ==
  { OkResponse, Response(FALSE, 310000, "keywords not in content"),
    Response(TRUE, 0, "") }

\* A sendNow that reports every delivery as accepted.
sendResultAlwaysOk(o) == Result(StatusSent, "", o.ErrCode, o.ErrMsg)

\* agent.go:560-572: the Result of sendNow for each outcome of SendMarkdown.
sendResult(o) ==
  IF o.failed THEN Result(StatusSent, "transport", 0, "")
  ELSE IF o.ErrCode # 0
  THEN Result(StatusSent, "dingtalk errcode", o.ErrCode, o.ErrMsg)
  ELSE Result(StatusSent, "", o.ErrCode, o.ErrMsg)

\* A sendNow that calls the channel again when a delivery failed.
sendNowRetries(h) ==
  LET th == hth[h] IN
  /\ th.pc = "send"
  /\ IF ~acfg.dt
     THEN /\ proceed(h, th, "idle", StatusSent, "not configured")
          /\ UNCHANGED <<effects, sendLog>>
     ELSE /\ \E o \in aenv.send :
               /\ IF o = OkResponse
                  THEN proceedWith(h, th, "idle", sendResult(o))
                  ELSE UNCHANGED <<hth, results, audit>>
               /\ sendLog' = Put(sendLog, th.call, o)
          /\ effects' = [effects EXCEPT ![th.call].send = @ + 1]
  /\ UNCHANGED <<limiter, dedup, merge, armed, timers, digest, digestDue,
                 calls, dedupLog, flushes, digestSends, waits, alertFixed>>

\* agent.go:556-573 and the return of sent: one SendMarkdown call when a
\* channel is configured.
sendNow(h) ==
  LET th == hth[h] IN
  /\ th.pc = "send"
  /\ IF ~acfg.dt
     THEN /\ proceed(h, th, "idle", StatusSent, "not configured")
          /\ UNCHANGED <<effects, sendLog>>
     ELSE /\ \E o \in aenv.send :
               /\ proceedWith(h, th, "idle", sendResult(o))
               /\ sendLog' = Put(sendLog, th.call, o)
          /\ effects' = [effects EXCEPT ![th.call].send = @ + 1]
  /\ UNCHANGED <<limiter, dedup, merge, armed, timers, digest, digestDue,
                 calls, dedupLog, flushes, digestSends, waits, alertFixed>>

RECURSIVE requestsOf(_)
requestsOf(entries) ==
  IF entries = <<>> THEN <<>>
  ELSE <<Head(entries).req>> \o requestsOf(Tail(entries))

RECURSIVE callsOf(_)
callsOf(entries) ==
  IF entries = <<>> THEN <<>>
  ELSE <<Head(entries).call>> \o callsOf(Tail(entries))

\* agent.go:605-622: the callback of timer id runs once the merge window is
\* over; it takes the pending state under mergeMu and, outside the lock,
\* hands the merged request to Handle, whose local part follows at once.
flushMerge(h, id) ==
  LET k == armed[id].key
      ok == Has(merge, k)
      batch == IF ok THEN merge[k] ELSE <<>>
      merged == buildMerged(requestsOf(batch))
      resubmits == ok /\ Len(batch) > 0 /\ ~merged.Silent
  IN
  /\ h \in FlushCallers
  /\ hth[h].pc = "idle"
  /\ id \in timers
  /\ mono >= armed[id].due
  /\ timers' = timers \ {id}
  /\ merge' = IF ok THEN Del(merge, k) ELSE merge
  /\ flushes' = Append(flushes,
       [timer |-> id, key |-> k, found |-> ok, members |-> batch,
        call |-> IF resubmits THEN Len(calls) + 1 ELSE 0])
  /\ IF resubmits THEN enterHandle(h, merged, id)
     ELSE UNCHANGED <<hth, calls, effects, results, audit>>
  /\ UNCHANGED <<limiter, dedup, armed, digest, digestDue, dedupLog,
                 digestSends, waits, sendLog, alertFixed>>

\* The byte values of the group names requests carry ("default" stands for
\* the empty name, agent.go:631-633).
Spell(name) ==
  CASE name = "default" -> <<100, 101, 102, 97, 117, 108, 116>>
    [] name = "risk" -> <<114, 105, 115, 107>>
    [] name = "Risk" -> <<82, 105, 115, 107>>
    [] OTHER -> <<>>

RECURSIVE LexLess(_, _)
LexLess(x, y) ==
  IF x = <<>> THEN y # <<>>
  ELSE IF y = <<>> THEN FALSE
  ELSE IF Head(x) # Head(y) THEN Head(x) < Head(y)
  ELSE LexLess(Tail(x), Tail(y))

\* The order of Go's strings: byte by byte.
LessString(a, b) == LexLess(Spell(a), Spell(b))

\* sort.Strings on the keys of a map, whose iteration order is arbitrary.
RECURSIVE sortStrings(_)
sortStrings(keys) ==
  IF keys = {} THEN <<>>
  ELSE LET least == CHOOSE k \in keys :
                      \A other \in keys \ {k} : LessString(k, other)
       IN <<least>> \o sortStrings(keys \ {least})

\* agent.go:797-809: the lines of one member.
digestItem(a) ==
  [title |-> IF a.Title = [base |-> "", more |-> 0]
             THEN [base |-> "(no title)", more |-> 0] ELSE a.Title,
   markdown |-> a.Markdown]

\* agent.go:785-814: one section per group, the groups sorted, the members
\* of a group in the order of its bucket.
buildDigestMarkdown(groups) ==
  LET keys == sortStrings(DOMAIN groups) IN
  [i \in 1..Len(keys) |->
     [group |-> keys[i],
      items |-> [j \in 1..Len(groups[keys[i]]) |->
                   digestItem(groups[keys[i]][j].req)]]]

\* A swap that hands out the buckets and keeps them.
swapDigestCopies == [out |-> digest, left |-> digest]

\* agent.go:710-719, under digestMu: the map handed out and the map left.
swapDigest == [out |-> digest, left |-> <<>>]

\* agent.go:637-671: a tick of the digest ticker; swapDigest takes the
\* buckets, then one document is sent when there is a channel.
flushDigest ==
  /\ acfg.LowDigestInterval > 0
  /\ mono >= digestDue
  /\ digestDue' = digestDue + acfg.LowDigestInterval
  /\ LET groups == swapDigest.out IN
     /\ digest' = swapDigest.left
     /\ IF DOMAIN groups = {} \/ ~acfg.dt
        THEN UNCHANGED digestSends
        ELSE \E o \in aenv.send :
               digestSends' = Append(digestSends,
                 [groups |-> [g \in DOMAIN groups |-> callsOf(groups[g])],
                  doc |-> buildDigestMarkdown(groups),
                  outcome |-> o])
  /\ UNCHANGED <<limiter, dedup, merge, armed, timers, hth, calls, results,
                 audit, effects, dedupLog, flushes, waits, sendLog,
                 alertFixed>>

AlertNext ==
  \/ \E h \in Callers :
       \/ Handle(h)
       \/ isDeduped(h)
       \/ enqueueMerge(h)
       \/ handleSendOrDigest(h)
       \/ WaitForToken(h)
       \/ addDigest(h)
       \/ sendNow(h)
       \/ \E id \in timers : flushMerge(h, id)
  \/ flushDigest
  \/ TickMono

\* ------------------------------------------------- alert service behaviours
\* main.go:46-55: the windows and the digest interval are configured in
\* whole seconds.
AlertConfig(dedupSec, mergeSec, digestSec) ==
  [DedupWindow |-> dedupSec * TicksPerSec, MergeWindow |-> mergeSec * TicksPerSec,
   LowDigestInterval |-> digestSec * TicksPerSec, dt |-> TRUE, store |-> TRUE]

\* agent.go:490-505.
NewService(cfg, perMinute, burst) ==
  /\ acfg = cfg
  /\ limiter = NewTokenBucket(perMinute, burst)
  /\ dedup = <<>>
  /\ merge = <<>>
  /\ digest = <<>>
  /\ digestDue = cfg.LowDigestInterval
  /\ armed = <<>>
  /\ timers = {}
  /\ hth = [h \in Callers |-> IdleHandler]
  /\ calls = <<>>
  /\ results = <<>>
  /\ audit = <<>>
  /\ effects = <<>>
  /\ dedupLog = <<>>
  /\ flushes = <<>>
  /\ digestSends = <<>>
  /\ waits = <<>>
  /\ sendLog = <<>>

\* A medium priority request with a dedup key; a low and a high priority
\* request sharing a merge key; a silent request carrying both keys.
AlertInputs ==
  { AlertRequest(PriorityMed, "risk", "d", "d1", "", FALSE),
    AlertRequest(PriorityLow, "", "", "", "m1", FALSE),
    AlertRequest(PriorityHigh, "risk", "m", "", "m1", FALSE),
    AlertRequest("", "", "s", "d1", "m1", TRUE) }

\* Dedup and merge windows of one second, a digest every two seconds or no
\* digest at all, a limiter of 15 per minute with a burst of one.
AlertInit ==
  /\ \E digestSec \in {0, 2} : NewService(AlertConfig(1, 1, digestSec), 15, 1)
  /\ aenv = [send |-> {OkResponse}, insert |-> {"ok"}]
  /\ ainputs = AlertInputs
  /\ alim = AlertMaxCalls
  /\ mono = 0
  /\ allowLog = <<>>
  /\ blim = [calls |-> 0, clock |-> AlertMaxClock]
  /\ EngineIdle
  /\ LocksIdle
  /\ AdvisorIdle

SpecAlert == AlertInit /\ [][AlertNext]_vars

\* ------------------------------------------------------------ properties

\* C1: after any sequence of OnSnapshot calls the window of every symbol is
\* the last min(N, cap) snapshots appended for it, in insertion order, N
\* being the number of accepted snapshots of the symbol and cap
\* window_max_keep; a snapshot without a symbol is never stored.
C1_WindowIsLastMinNCap ==
  /\ DOMAIN windows = DOMAIN ingested
  /\ Empty \notin DOMAIN windows
  /\ \A sym \in DOMAIN ingested :
       LET n == Len(ingested[sym])
           k == Min(n, ecfg.WindowMaxKeep)
       IN /\ Len(windows[sym]) = k
          /\ windows[sym] = SubSeq(ingested[sym], n - k + 1, n)

\* A symbol has received more snapshots than a cap of two and its window is
\* full.
C1_Witness ==
  \E sym \in DOMAIN ingested :
    /\ Len(ingested[sym]) > ecfg.WindowMaxKeep
    /\ Len(windows[sym]) = ecfg.WindowMaxKeep
    /\ ecfg.WindowMaxKeep >= 2

\* C2: the window of every symbol is sorted by timestamp, whatever the
\* order in which the snapshots arrive.
C2_WindowSortedByTS ==
  \A sym \in DOMAIN windows :
    \A i, j \in 1..Len(windows[sym]) :
      i < j => windows[sym][i].TS <= windows[sym][j].TS

\* The decisions of the cooldown gate on key k, in the order in which the
\* calls held e.mu.
GateIdx(k) == {i \in 1..Len(gateLog) : gateLog[i].key = k}
GateKeys == {gateLog[i].key : i \in 1..Len(gateLog)}
\* The last non-suppressed firing of gateLog[i]'s key before decision i.
LastPass(i) ==
  LET before == {j \in GateIdx(gateLog[i].key) : j < i /\ gateLog[j].pass}
  IN IF before = {} THEN 0
     ELSE CHOOSE j \in before : \A l \in before : l <= j
EventsOf(call, k) ==
  {e \in 1..Len(events) :
     /\ events[e].call = call
     /\ cooldownKey(events[e].Type, events[e].Symbol, events[e].Severity) = k}
Emitting(call) ==
  \E t \in Threads : eth[t].call = call /\ eth[t].pc = "emit"

\* C3: for a fixed (rule, symbol, severity) a firing less than cooldown_sec
\* after the last non-suppressed firing of the key is suppressed and produces
\* no Event; the first firing, and a firing at least cooldown_sec after the
\* last non-suppressed one, passes and produces exactly one Event. Times are
\* the readings of time.Now().Unix() the firings took.
C3_CooldownOneEventPerPeriod ==
  \A i \in 1..Len(gateLog) :
    LET g == gateLog[i]
        j == LastPass(i)
        n == Cardinality(EventsOf(g.call, g.key))
    IN /\ g.pass <=> (j = 0 \/ g.now - gateLog[j].now >= g.cd)
       /\ ~g.pass => n = 0
       /\ g.pass => n = (IF Emitting(g.call) THEN 0 ELSE 1)

\* One key saw a firing, a second firing less than cooldown_sec later that
\* was suppressed, and a third firing exactly cooldown_sec after the first
\* that passed; two Events of the key exist.
C3_Witness ==
  \E i, j, l \in 1..Len(gateLog) :
    /\ i < j /\ j < l
    /\ gateLog[i].key = gateLog[j].key /\ gateLog[j].key = gateLog[l].key
    /\ gateLog[i].pass /\ ~gateLog[j].pass /\ gateLog[l].pass
    /\ gateLog[j].now - gateLog[i].now < gateLog[j].cd
    /\ gateLog[l].now - gateLog[i].now = gateLog[l].cd
    /\ Cardinality({e \in 1..Len(events) :
          cooldownKey(events[e].Type, events[e].Symbol, events[e].Severity)
            = gateLog[i].key}) = 2

Dist(a, b) == IF a < b THEN b - a ELSE a - b

\* C4: in every interleaving of concurrent OnSnapshot calls that meet the
\* firing condition of one (rule, symbol, severity), the check-and-update of
\* the cooldown gate is atomic: the first call to reach the gate passes, no
\* call whose clock reading is within cooldown_sec of a passed one passes as
\* well, and every passed call, and no other, emits an Event.
C4_ConcurrentGateExactlyOne ==
  \A k \in GateKeys :
    LET first == CHOOSE i \in GateIdx(k) : \A j \in GateIdx(k) : i <= j IN
    /\ gateLog[first].pass
    /\ \A i, j \in GateIdx(k) :
         (i # j /\ Dist(gateLog[i].now, gateLog[j].now) < gateLog[i].cd)
           => ~(gateLog[i].pass /\ gateLog[j].pass)
    /\ \A e \in 1..Len(events) :
         cooldownKey(events[e].Type, events[e].Symbol, events[e].Severity) = k
           => \E i \in GateIdx(k) :
                gateLog[i].pass /\ gateLog[i].call = events[e].call
    /\ \A i \in GateIdx(k) :
         Cardinality(EventsOf(gateLog[i].call, k)) <= 1

\* Two calls were inside OnSnapshot at once with the same key and clock
\* readings in one cooldown period: one passed and is still emitting, the
\* other reached the gate after it and was suppressed.
C4_Witness ==
  \E i, j \in 1..Len(gateLog) :
    /\ i < j
    /\ gateLog[i].key = gateLog[j].key
    /\ gateLog[i].call # gateLog[j].call
    /\ Dist(gateLog[i].now, gateLog[j].now) < gateLog[i].cd
    /\ gateLog[i].pass /\ ~gateLog[j].pass
    /\ \E t \in Threads :
         eth[t].call = gateLog[i].call /\ eth[t].pc \in {"emit", "handle"}

\* Decisions of isDeduped i and j are on one key with clock readings within
\* the dedup window of each other.
SameKeyInWindow(i, j) ==
  /\ dedupLog[i].key = dedupLog[j].key
  /\ Dist(dedupLog[i].now, dedupLog[j].now) <= acfg.DedupWindow

Returned(c) == c \in DOMAIN results

NonSuppressed(c) == Returned(c) /\ results[c].Status # StatusSuppressed

SameKeyTimers(id) == {x \in 1..Len(armed) : armed[x].key = armed[id].key}

\* The batch of timer id: what its flush took, or what is pending for its
\* key while it has not fired.
FlushesOf(id) == {f \in 1..Len(flushes) : flushes[f].timer = id}

BatchOf(id) ==
  IF FlushesOf(id) # {} THEN flushes[CHOOSE f \in FlushesOf(id) : TRUE].members
  ELSE IF id \in timers /\ Has(merge, armed[id].key) THEN merge[armed[id].key]
  ELSE <<>>

\* C6: the Handle calls sharing a merge_key that arrive within the merge
\* window opened by the first of them each return merged_pending and are
\* one batch; the flush of the batch makes one synthetic request, with
\* empty keys and the maximum of the batch's priorities, and the Handle
\* call of that request has exactly one downstream outcome: one send or one
\* digest enqueue.
C6_MergeOneOutcome ==
  /\ \A id, later \in 1..Len(armed) :
       (id < later /\ later \in SameKeyTimers(id)) =>
         \A m \in 1..Len(BatchOf(later)) :
           BatchOf(later)[m].at >= armed[id].due
  /\ \A f \in 1..Len(flushes) :
       LET b == flushes[f].members
           c == flushes[f].call
       IN
       /\ flushes[f].found /\ Len(b) >= 1 /\ c # 0
       /\ FlushesOf(flushes[f].timer) = {f}
       /\ \A m \in 1..Len(b) :
            /\ Returned(b[m].call)
            /\ results[b[m].call].Status = StatusMergedPending
            /\ rank(b[m].req.Priority) <= rank(calls[c].req.Priority)
       /\ \E m \in 1..Len(b) : b[m].req.Priority = calls[c].req.Priority
       /\ calls[c].by = flushes[f].timer
       /\ calls[c].req.MergeKey = "" /\ calls[c].req.DedupKey = ""
       /\ {x \in 1..Len(calls) : calls[x].by = flushes[f].timer} = {c}
       /\ Returned(c) =>
            /\ results[c].Status \in {StatusSent, StatusQueuedDigest}
            /\ effects[c].send + effects[c].digest = 1

\* The calls whose requests are in the flushed batches from flush f on, and
\* the calls whose requests are pending for the keys in ks, one per entry.
RECURSIVE flushedCalls(_)
flushedCalls(f) ==
  IF f > Len(flushes) THEN <<>>
  ELSE callsOf(flushes[f].members) \o flushedCalls(f + 1)

RECURSIVE pendingCalls(_)
pendingCalls(ks) ==
  IF ks = {} THEN <<>>
  ELSE LET k == CHOOSE x \in ks : TRUE IN
       callsOf(merge[k]) \o pendingCalls(ks \ {k})

\* C7: for every merge_key at most one timer is pending, and one is
\* pending exactly while requests are pending for the key; every timer that
\* fired flushed one batch, not empty, that starts with the request that
\* armed it; every enqueued request is in exactly one place, pending or in
\* one flushed batch, exactly once.
C7_OneFlushPerWindow ==
  /\ \A id, other \in timers : armed[id].key = armed[other].key => id = other
  /\ \A k \in DOMAIN merge :
       /\ Len(merge[k]) >= 1
       /\ \E id \in timers : armed[id].key = k
  /\ \A id \in timers :
       /\ Has(merge, armed[id].key)
       /\ merge[armed[id].key][1].call = armed[id].call
       /\ \A f \in 1..Len(flushes) : flushes[f].timer # id
  /\ \A id \in 1..Len(armed) :
       id \in timers \/ \E f \in 1..Len(flushes) : flushes[f].timer = id
  /\ \A f \in 1..Len(flushes) :
       /\ flushes[f].found
       /\ Len(flushes[f].members) >= 1
       /\ flushes[f].members[1].call = armed[flushes[f].timer].call
       /\ \A g \in 1..Len(flushes) :
            flushes[g].timer = flushes[f].timer => g = f
  /\ LET placed == flushedCalls(1) \o pendingCalls(DOMAIN merge) IN
     /\ \A x, y \in 1..Len(placed) : placed[x] = placed[y] => x = y
     /\ {placed[x] : x \in 1..Len(placed)}
          = {c \in DOMAIN effects : effects[c].merge >= 1}
     /\ \A c \in DOMAIN effects : effects[c].merge <= 1

\* Two requests enqueued by concurrent calls were flushed as one batch, and
\* a request enqueued after that flush has armed a second timer for the key.
C7_Witness ==
  \E f \in 1..Len(flushes) :
    /\ Len(flushes[f].members) = 2
    /\ \E id \in timers :
         /\ id > flushes[f].timer
         /\ armed[id].key = flushes[f].key
         /\ Len(merge[armed[id].key]) = 1

\* C8: a call that has returned has one of the four statuses, and did
\* nothing of the other paths: suppressed made no merge, digest or channel
\* effect; merged_pending made one merge enqueue and nothing else;
\* queued_digest neither merged nor called the channel; sent called the
\* channel once (not at all without a channel) and neither merged nor queued. A call in progress has made
\* the effect of at most one path so far, at most once.
C8_OneTerminalPath ==
  /\ \A c \in DOMAIN effects :
       /\ effects[c].merge + effects[c].digest + effects[c].send <= 1
       /\ (~Returned(c)) => \E h \in Callers : hth[h].call = c
  /\ \A c \in DOMAIN results :
       LET e == effects[c]
           s == results[c].Status
       IN
       /\ s \in {StatusSuppressed, StatusMergedPending, StatusQueuedDigest,
                 StatusSent}
       /\ s = StatusSuppressed => e = NoEffects
       /\ s = StatusMergedPending => e = [NoEffects EXCEPT !.merge = 1]
       /\ s = StatusQueuedDigest => (e.merge = 0 /\ e.send = 0)
       /\ s = StatusSent =>
            e = [NoEffects EXCEPT !.send = IF acfg.dt THEN 1 ELSE 0]
       /\ \A h \in Callers : hth[h].call # c

\* Calls have returned with each of the four statuses.
C8_Witness ==
  /\ \E c \in DOMAIN results :
       results[c].Status = StatusSuppressed /\ calls[c].req.Silent
  /\ \E c \in DOMAIN results : results[c].Status = StatusMergedPending
  /\ \E c \in DOMAIN results :
       results[c].Status = StatusQueuedDigest /\ effects[c].digest = 1
  /\ \E c \in DOMAIN results : results[c].Status = StatusSent

IsDefaultBucket ==
  /\ ~limiter.disabled
  /\ limiter.perMinute = DefaultPerMinute
  /\ limiter.burst = DefaultBurst * TokenUnit

\* C9: for a bucket created with per_minute = 60 and burst = 10, of the
\* Allow calls made before any time has passed the first 10 return true and
\* every later one false; and whenever a call is made at least one second
\* after a call that returned false, some call after the failed one, up to
\* and including that call, returns true.
C9_BurstThenRefill ==
  IsDefaultBucket =>
    /\ \A i \in 1..Len(allowLog) :
         allowLog[i].at = 0 => (allowLog[i].ok <=> i <= DefaultBurst)
    /\ \A i, j \in 1..Len(allowLog) :
         (i < j /\ ~allowLog[i].ok /\ allowLog[j].at >= allowLog[i].at + TicksPerSec)
           => \E l \in (i + 1)..j : allowLog[l].ok

\* Eleven immediate calls, the eleventh refused, then a call one second or
\* more later that succeeds.
C9_Witness ==
  /\ IsDefaultBucket
  /\ Len(allowLog) >= 12
  /\ \A i \in 1..11 : allowLog[i].at = 0
  /\ allowLog[10].ok /\ ~allowLog[11].ok
  /\ allowLog[12].at >= TicksPerSec /\ allowLog[12].ok

Grants == Cardinality({i \in 1..Len(allowLog) : allowLog[i].ok})

\* C10: an enabled bucket always has 0 <= tokens <= burst and starts full;
\* Allow answers true exactly when the tokens after the refill for the
\* elapsed time (per_minute/60 per second, capped at burst) are at least 1,
\* and then takes exactly 1; a refused Allow takes nothing; the calls granted
\* never exceed burst plus what the elapsed time refilled.
C10_BucketInvariant ==
  ~limiter.disabled =>
    /\ 0 <= limiter.tokens /\ limiter.tokens <= limiter.burst
    /\ (allowLog = <<>> /\ limiter.lastRefill = 0)
         => limiter.tokens = limiter.burst
    /\ \A i \in 1..Len(allowLog) :
         LET e == allowLog[i]
             elapsed == IF e.at > e.last THEN e.at - e.last ELSE 0
             refilled == Min(e.before + elapsed * limiter.perMinute,
                             limiter.burst)
         IN /\ e.ok <=> refilled >= TokenUnit
            /\ e.after = refilled - (IF e.ok THEN TokenUnit ELSE 0)
    /\ Grants * TokenUnit <= limiter.burst + limiter.perMinute * mono

\* A bucket was drained, refused a call, was refilled to a fraction of a
\* token that a further call left untouched, and served again later.
C10_Witness ==
  /\ ~limiter.disabled
  /\ \E i, j, l \in 1..Len(allowLog) :
       /\ i < j /\ j < l
       /\ ~allowLog[i].ok /\ allowLog[i].after = 0
       /\ ~allowLog[j].ok /\ allowLog[j].after > 0
       /\ allowLog[j].after = allowLog[j].before
            + (allowLog[j].at - allowLog[j].last) * limiter.perMinute
       /\ allowLog[l].ok /\ allowLog[l].after = 0

\* ------------------------------------------------------------ silent calls
SilentMaxCalls == 2
SilentMaxClock == 1

\* Silent requests of every priority, with and without each key, next to a
\* request that passes dedup with the same key, one that is merged under the
\* same key and one for the digest.
SilentInputs ==
  { AlertRequest(p, "", "s", dk, mk, TRUE) :
      p \in {"", PriorityHigh, PriorityMed, PriorityLow},
      dk \in {"", "d1"}, mk \in {"", "m1"} }
  \cup { AlertRequest(PriorityMed, "risk", "d", "d1", "", FALSE),
         AlertRequest(PriorityHigh, "risk", "m", "", "m1", FALSE),
         AlertRequest(PriorityLow, "", "l", "", "", FALSE) }

\* A service with or without a store; windows and digest interval of one
\* second.
SilentInit ==
  /\ \E st \in BOOLEAN :
       NewService([AlertConfig(1, 1, 1) EXCEPT !.store = st], 15, 1)
  /\ aenv = [send |-> {OkResponse}, insert |-> {"ok"}]
  /\ ainputs = SilentInputs
  /\ alim = SilentMaxCalls
  /\ mono = 0
  /\ allowLog = <<>>
  /\ blim = [calls |-> 0, clock |-> SilentMaxClock]
  /\ EngineIdle
  /\ LocksIdle
  /\ AdvisorIdle

SpecSilent == SilentInit /\ [][AlertNext]_vars

\* The calls that hold, or held, the request of call c in a merge batch or a
\* digest bucket.
HeldSomewhere(c) ==
  \/ \E k \in DOMAIN merge : \E i \in 1..Len(merge[k]) : merge[k][i].call = c
  \/ \E g \in DOMAIN digest : \E i \in 1..Len(digest[g]) : digest[g][i].call = c
  \/ \E i \in 1..Len(flushes) :
       \E m \in 1..Len(flushes[i].members) : flushes[i].members[m].call = c
  \/ \E i \in 1..Len(dedupLog) : dedupLog[i].call = c

\* C11: a Handle call whose request is silent returns suppressed without an
\* error, sends nothing and joins no dedup, merge or digest state, whatever
\* its priority and keys; with a store configured its alert record and its
\* event record are written, the alert record with status suppressed.
C11_SilentSuppressed ==
  \A c \in 1..Len(calls) :
    calls[c].req.Silent =>
      /\ c \in DOMAIN results
      /\ results[c] = Result(StatusSuppressed, "", 0, "")
      /\ effects[c] = NoEffects
      /\ ~HeldSomewhere(c)
      /\ acfg.store =>
           /\ c \in DOMAIN audit
           /\ audit[c].alerts
                = <<AlertRecord(normalize(calls[c].req), results[c])>>
           /\ audit[c].alerts[1].Status = StatusSuppressed
           /\ audit[c].events = <<EventRecord(normalize(calls[c].req))>>
      /\ ~acfg.store => c \notin DOMAIN audit

\* A silent high priority request with both keys was suppressed and recorded
\* while a request with the same dedup key had been sent within the dedup
\* window.
C11_Witness ==
  /\ acfg.store
  /\ \E c \in DOMAIN audit, d \in DOMAIN results :
       /\ calls[c].req = AlertRequest(PriorityHigh, "", "s", "d1", "m1", TRUE)
       /\ audit[c].alerts[1].Status = StatusSuppressed
       /\ d < c
       /\ calls[d].req.DedupKey = "d1" /\ results[d].Status = StatusSent
  /\ Has(dedup, "d1")

\* ------------------------------------------------------- priority routing
\* The calls that reached handleSendOrDigest: they returned, neither
\* suppressed nor merged_pending.
Routed(c) ==
  /\ c \in DOMAIN results
  /\ results[c].Status \notin {StatusSuppressed, StatusMergedPending}

\* C12: in every configuration a low priority request that reaches priority
\* routing returns queued_digest and was appended, once, to the digest
\* bucket of its group.
C12_LowAlwaysQueued ==
  \A c \in 1..Len(calls) :
    (Routed(c) /\ normalize(calls[c].req).Priority = PriorityLow) =>
      /\ results[c].Status = StatusQueuedDigest
      /\ effects[c] = [NoEffects EXCEPT !.digest = 1]

\* ------------------------------------------------------- the limiter's wait
WaitMaxCalls == 4
WaitMaxClock == 4

\* A high and a medium priority request without keys: every call goes
\* straight to the limiter.
WaitInputs ==
  { AlertRequest(PriorityHigh, "risk", "h", "", "", FALSE),
    AlertRequest(PriorityMed, "risk", "m", "", "", FALSE) }

\* Windows of one second, a digest every two seconds, a limiter of 15 per
\* minute with a burst of one: after a send the next token is four seconds
\* away, twice the wait of a high priority request.
WaitInit ==
  /\ NewService(AlertConfig(1, 1, 2), 15, 1)
  /\ aenv = [send |-> {OkResponse}, insert |-> {"ok"}]
  /\ ainputs = WaitInputs
  /\ alim = WaitMaxCalls
  /\ mono = 0
  /\ allowLog = <<>>
  /\ blim = [calls |-> 0, clock |-> WaitMaxClock]
  /\ EngineIdle
  /\ LocksIdle
  /\ AdvisorIdle

\* The steps of calls without a dedup key and without a merge key.
WaitNext ==
  \/ \E h \in Callers :
       \/ Handle(h)
       \/ handleSendOrDigest(h)
       \/ WaitForToken(h)
       \/ addDigest(h)
       \/ sendNow(h)
  \/ flushDigest
  \/ TickMono

SpecWait == WaitInit /\ [][WaitNext]_vars

\* The handlers running call c.
RunningAt(c, pc) == \E h \in Callers : hth[h].call = c /\ hth[h].pc = pc

SendMaxCalls == 3
SendMaxClock == 2

\* A request that passes dedup, one that is merged and a silent one.
SendInputs ==
  { AlertRequest(PriorityMed, "risk", "d", "d1", "", FALSE),
    AlertRequest(PriorityHigh, "risk", "m", "", "m1", FALSE),
    AlertRequest(PriorityLow, "", "s", "", "", TRUE) }

\* A service with or without a channel, a channel that answers in every way
\* it can, a limiter with a burst of two.
SendInit ==
  /\ \E dt \in BOOLEAN :
       NewService([AlertConfig(1, 1, 2) EXCEPT !.dt = dt], 15, 2)
  /\ aenv = [send |-> SendOutcomes, insert |-> {"ok"}]
  /\ ainputs = SendInputs
  /\ alim = SendMaxCalls
  /\ mono = 0
  /\ allowLog = <<>>
  /\ blim = [calls |-> 0, clock |-> SendMaxClock]
  /\ EngineIdle
  /\ LocksIdle
  /\ AdvisorIdle

SpecSend == SendInit /\ [][AlertNext]_vars

\* C14: a delivery that ends with a transport error or with a non-zero code
\* of the channel gives a Result with status sent and an error, and for a
\* non-zero code the code and the message of the channel; no Result of
\* Handle has an empty status, and an error comes with status sent only.
C14_FailedDeliveryIsSentWithError ==
  /\ \A c \in DOMAIN sendLog :
       LET o == sendLog[c]
           r == results[c]
       IN
       /\ Returned(c)
       /\ r.Status = StatusSent
       /\ o.failed => r.Error # ""
       /\ (~o.failed /\ o.ErrCode # 0) =>
            /\ r.Error # ""
            /\ r.DingTalkErrCode = o.ErrCode
            /\ r.DingTalkErrMsg = o.ErrMsg
       /\ (~o.failed /\ o.ErrCode = 0) => r.Error = ""
  /\ \A c \in DOMAIN results :
       /\ results[c].Status \in {StatusSent, StatusSuppressed,
                                 StatusQueuedDigest, StatusMergedPending}
       /\ results[c].Error # "" => results[c].Status = StatusSent
       /\ effects[c].send = (IF c \in DOMAIN sendLog THEN 1 ELSE 0)

\* One call met a transport error, another a non-zero code, and both
\* returned sent with an error.
C14_Witness ==
  \E c \in DOMAIN sendLog, d \in DOMAIN sendLog :
    /\ sendLog[c].failed /\ results[c].Error # ""
    /\ ~sendLog[d].failed /\ sendLog[d].ErrCode # 0
    /\ results[d].Status = StatusSent /\ results[d].DingTalkErrCode # 0

\* ---------------------------------------------------------- audit records
AuditMaxCalls == 2
AuditMaxClock == 1

\* A request that passes dedup and is sent or suppressed; a low priority
\* request that is merged and, resubmitted by the flush, queued for the
\* digest.
AuditInputs ==
  { AlertRequest(PriorityMed, "risk", "d", "d1", "", FALSE),
    AlertRequest(PriorityLow, "", "", "", "m1", FALSE) }

\* A service with a store whose inserts may fail; windows and digest
\* interval of one second.
AuditInit ==
  /\ NewService(AlertConfig(1, 1, 1), 15, 1)
  /\ aenv = [send |-> {OkResponse}, insert |-> {"ok", "fail"}]
  /\ ainputs = AuditInputs
  /\ alim = AuditMaxCalls
  /\ mono = 0
  /\ allowLog = <<>>
  /\ blim = [calls |-> 0, clock |-> AuditMaxClock]
  /\ EngineIdle
  /\ LocksIdle
  /\ AdvisorIdle

\* The steps of calls of medium and low priority: none waits for a token.
AuditNext ==
  \/ \E h \in Callers :
       \/ Handle(h)
       \/ isDeduped(h)
       \/ enqueueMerge(h)
       \/ handleSendOrDigest(h)
       \/ addDigest(h)
       \/ sendNow(h)
       \/ \E id \in timers : flushMerge(h, id)
  \/ flushDigest
  \/ TickMono

SpecAudit == AuditInit /\ [][AuditNext]_vars

\* The Result of call c as the stages it went through give it.
ResultByEffects(c) ==
  IF c \in DOMAIN sendLog THEN sendResult(sendLog[c])
  ELSE IF effects[c].merge = 1 THEN Result(StatusMergedPending, "", 0, "")
  ELSE IF effects[c].digest = 1 THEN Result(StatusQueuedDigest, "", 0, "")
  ELSE Result(StatusSuppressed, "", 0, "")

Lock(l) == [op |-> "lock", arg |-> l]
Unlock(l) == [op |-> "unlock", arg |-> l]
Outbound(x) == [op |-> "call", arg |-> x]
Sleep == [op |-> "sleep", arg |-> ""]
Run(f) == [op |-> "run", arg |-> f]

\* engine.go:109-126: nothing for a blank symbol; else the window is
\* updated under e.mu and the rules run after the unlock.
OnSnapshotFlow ==
  { <<>>, <<Lock("mu"), Unlock("mu"), Run("runRules")>> }

\* engine.go:136-141.
runRulesFlow ==
  { <<Run("ruleIndexRisk"), Run("rulePanicDrop"), Run("ruleVolumeSpike"),
      Run("ruleKeyBreakDown")>> }

\* engine.go:143-260: a rule returns, or asks checkCooldown and returns, or
\* asks checkCooldown and emits one event.
ruleFlow ==
  { <<>>, <<Run("checkCooldown")>>, <<Run("checkCooldown"), Run("emit")>> }

\* engine.go:430-445: no lock without a cooldown; else e.mu until return.
checkCooldownFlow == { <<>>, <<Lock("mu"), Unlock("mu")>> }

\* engine.go:262-328: without a store nothing; else the event insert, and
\* with an alert service the evaluation and Handle.
emitFlow ==
  { <<>>, <<Outbound("InsertEventReturnID")>>,
    <<Outbound("InsertEventReturnID"), Run("evaluateRisk"), Run("Handle")>> }

\* engine.go:349-366.
evaluateRiskFlow == { <<>>, <<Outbound("Evaluate")>> }

\* agent.go:507-531.
HandleFlow ==
  { <<Run("recordAlert")>>,
    <<Run("isDeduped"), Run("recordAlert")>>,
    <<Run("isDeduped"), Run("enqueueMerge"), Run("recordAlert")>>,
    <<Run("isDeduped"), Run("handleSendOrDigest"), Run("recordAlert")>> }

\* agent.go:575-589: no lock without a key or a window.
isDedupedFlow == { <<>>, <<Lock("dedupMu"), Unlock("dedupMu")>> }

\* agent.go:591-603.
enqueueMergeFlow == { <<Lock("mergeMu"), Unlock("mergeMu")>> }

\* agent.go:533-554; the limiter is never nil (agent.go:496).
handleSendOrDigestFlow ==
  { <<Run("addDigest")>>,
    <<Run("Allow"), Run("sendNow")>>,
    <<Run("Allow"), Run("WaitForToken"), Run("sendNow")>>,
    <<Run("Allow"), Run("WaitForToken"), Run("addDigest")>>,
    <<Run("Allow"), Run("addDigest")>> }

\* agent.go:860-872: no lock when the bucket is disabled.
AllowFlow == { <<>>, <<Lock("bucketMu"), Unlock("bucketMu")>> }

\* agent.go:874-896: at once when disabled; else rounds of Allow, the
\* deadline test, timeUntilNext and a sleep (none when sleepFor is 0).
WaitForTokenFlow == { <<>>, <<Run("waitRound")>> }

waitRoundFlow ==
  { <<Run("Allow")>>,
    <<Run("Allow"), Run("timeUntilNext"), Run("waitRound")>>,
    <<Run("Allow"), Run("timeUntilNext"), Sleep, Run("waitRound")>> }

\* agent.go:898-908.
timeUntilNextFlow == { <<Lock("bucketMu"), Unlock("bucketMu")>> }

\* agent.go:624-635: no lock without a digest interval.
addDigestFlow == { <<>>, <<Lock("digestMu"), Unlock("digestMu")>> }

\* agent.go:556-573.
sendNowFlow == { <<Outbound("SendMarkdown")>>, <<>> }

\* agent.go:673-708.
recordAlertFlow ==
  { <<>>, <<Outbound("InsertAlert"), Outbound("InsertEvent")>> }

\* A flushMerge that hands the batch to Handle before it unlocks.
flushMergeFlowHoldsLock ==
  { <<Lock("mergeMu"), Unlock("mergeMu")>>,
    <<Lock("mergeMu"), Run("Handle"), Unlock("mergeMu")>> }

\* agent.go:605-622.
flushMergeFlow ==
  { <<Lock("mergeMu"), Unlock("mergeMu")>>,
    <<Lock("mergeMu"), Unlock("mergeMu"), Run("Handle")>> }

\* A swapDigest that leaves the unlock to its caller.
swapDigestFlowKeepsLock == { <<Lock("digestMu")>> }

\* agent.go:710-719.
swapDigestFlow == { <<Lock("digestMu"), Unlock("digestMu")>> }

\* agent.go:650-671.
flushDigestFlow ==
  { <<Run("swapDigest")>>, <<Run("swapDigest"), Outbound("SendMarkdown")>> }

\* The alternatives of each function.
FlowOf(f) ==
  CASE f = "OnSnapshot" -> OnSnapshotFlow
    [] f = "runRules" -> runRulesFlow
    [] f \in {"ruleIndexRisk", "rulePanicDrop", "ruleVolumeSpike",
              "ruleKeyBreakDown"} -> ruleFlow
    [] f = "checkCooldown" -> checkCooldownFlow
    [] f = "emit" -> emitFlow
    [] f = "evaluateRisk" -> evaluateRiskFlow
    [] f = "Handle" -> HandleFlow
    [] f = "isDeduped" -> isDedupedFlow
    [] f = "enqueueMerge" -> enqueueMergeFlow
    [] f = "handleSendOrDigest" -> handleSendOrDigestFlow
    [] f = "Allow" -> AllowFlow
    [] f = "WaitForToken" -> WaitForTokenFlow
    [] f = "waitRound" -> waitRoundFlow
    [] f = "timeUntilNext" -> timeUntilNextFlow
    [] f = "addDigest" -> addDigestFlow
    [] f = "sendNow" -> sendNowFlow
    [] f = "recordAlert" -> recordAlertFlow
    [] f = "flushMerge" -> flushMergeFlow
    [] f = "swapDigest" -> swapDigestFlow
    [] f = "flushDigest" -> flushDigestFlow

\* main.go:113-119, router.go:101-110, 335-385, agent.go:597-599, 637-648:
\* the operations goroutines start.
EntryPoints == {"OnSnapshot", "Handle", "flushMerge", "flushDigest"}

Next1(g) == Head(flow[g])

AtOp(g, op) == flow[g] # <<>> /\ Next1(g).op = op

\* A goroutine outside every operation starts one.
Enter(g) ==
  /\ flow[g] = <<>>
  /\ \E f \in EntryPoints : flow' = [flow EXCEPT ![g] = <<Run(f)>>]
  /\ UNCHANGED <<owner, evars, bvars, avars, dvars>>

\* It enters a function and takes one of its paths.
Step(g) ==
  /\ AtOp(g, "run")
  /\ \E path \in FlowOf(Next1(g).arg) :
       flow' = [flow EXCEPT ![g] = path \o Tail(@)]
  /\ UNCHANGED <<owner, evars, bvars, avars, dvars>>

\* sync.Mutex.Lock: it goes on when the mutex is free, whoever asks.
Acquire(g) ==
  /\ AtOp(g, "lock")
  /\ owner[Next1(g).arg] = 0
  /\ owner' = [owner EXCEPT ![Next1(g).arg] = g]
  /\ flow' = [flow EXCEPT ![g] = Tail(@)]
  /\ UNCHANGED <<evars, bvars, avars, dvars>>

\* sync.Mutex.Unlock.
Release(g) ==
  /\ AtOp(g, "unlock")
  /\ owner' = [owner EXCEPT ![Next1(g).arg] = 0]
  /\ flow' = [flow EXCEPT ![g] = Tail(@)]
  /\ UNCHANGED <<evars, bvars, avars, dvars>>

\* A call to the store, the channel or the advisor returns.
Return(g) ==
  /\ AtOp(g, "call")
  /\ flow' = [flow EXCEPT ![g] = Tail(@)]
  /\ UNCHANGED <<owner, evars, bvars, avars, dvars>>

\* time.Sleep returns.
Wake(g) ==
  /\ AtOp(g, "sleep")
  /\ flow' = [flow EXCEPT ![g] = Tail(@)]
  /\ UNCHANGED <<owner, evars, bvars, avars, dvars>>

LocksNext ==
  \E g \in Goroutines :
    \/ Enter(g)
    \/ Step(g)
    \/ Acquire(g)
    \/ Release(g)
    \/ Return(g)
    \/ Wake(g)

LocksInit ==
  EngineIdle /\ LimiterIdle /\ AlertIdle /\ LocksIdle /\ AdvisorIdle

SpecLocks == LocksInit /\ [][LocksNext]_vars

Holds(g) == {l \in LockNames : owner[l] = g}

\* g is stopped at a Lock of a mutex that h holds.
WaitsFor(g, h) == AtOp(g, "lock") /\ owner[Next1(g).arg] = h

\* C16: no goroutine holds two of the mutexes of the engine, the dedup,
\* merge and digest stages and the token bucket at once: a goroutine that
\* asks for a mutex holds none, so no goroutine waits for a mutex while
\* another waits for one it holds, and none waits for itself.
C16_AtMostOneLock ==
  /\ \A g \in Goroutines :
       /\ Cardinality(Holds(g)) <= 1
       /\ AtOp(g, "lock") => Holds(g) = {}
       /\ ~WaitsFor(g, g)
  /\ \A g \in Goroutines, h \in Goroutines :
       WaitsFor(g, h) => \A k \in Goroutines : ~WaitsFor(h, k)

\* One goroutine holds mergeMu in flushMerge with Handle still to come,
\* while the other, inside Handle, is stopped at the Lock of enqueueMerge.
C16_Witness ==
  \E g \in Goroutines, h \in Goroutines :
    /\ Holds(g) = {"mergeMu"}
    /\ flow[g] = <<Unlock("mergeMu"), Run("Handle")>>
    /\ WaitsFor(h, g)
    /\ Len(flow[h]) > 2

\* C17: a goroutine that calls the channel (sendNow, flushDigest), the
\* store (recordAlert, emit) or the advisor holds no mutex, and none while
\* it sleeps in WaitForToken.
C17_NoLockAcrossOutbound ==
  \A g \in Goroutines :
    (AtOp(g, "call") \/ AtOp(g, "sleep")) => Holds(g) = {}

\* flushDigest is in its SendMarkdown, swapDigest behind it, while another
\* goroutine holds digestMu in addDigest with its inserts still to come.
C17_Witness ==
  \E g \in Goroutines, h \in Goroutines :
    /\ flow[g] = <<Outbound("SendMarkdown")>>
    /\ Holds(h) = {"digestMu"}
    /\ flow[h] = <<Unlock("digestMu"), Run("recordAlert")>>

\* -------------------------------------------------------------- INDEX_RISK
IndexMaxCalls == 2
IndexMaxClock == 2

\* The index symbol 4% down and 2% down; thresholds 2% and 3%.
IndexInputs ==
  { Snapshot(SH000001, 1, 10, -4, 100), Snapshot(SH000001, 1, 10, -2, 100) }

\* Store and alert service configured, with and without an enabled advisor.
IndexInit ==
  /\ LimiterIdle
  /\ AlertIdle
  /\ LocksIdle
  /\ AdvisorIdle
  /\ EngineStart({RawConfig(0, 2, 2, 55, 60)}, IndexInputs, {TRUE}, {TRUE},
                 BOOLEAN, [calls |-> IndexMaxCalls, clock |-> IndexMaxClock])

SpecIndex == IndexInit /\ [][EngineNext]_vars

\* The OnSnapshot calls that have returned.
Ingested(call) ==
  /\ call \in 1..ncalls
  /\ \A t \in Threads : eth[t].call # call

\* The calls whose snapshot is of the index symbol, at or below -high_pct,
\* and whose INDEX_RISK firing was not in cooldown.
IndexHighCalls ==
  { gateLog[i].call : i \in { j \in 1..Len(gateLog) :
      /\ gateLog[j].pass
      /\ gateLog[j].key[1] = "INDEX_RISK"
      /\ gateLog[j].s.Symbol = SH000001
      /\ gateLog[j].s.ChangePct <= -ecfg.IndexRisk.HighPct } }

EventsOfCall(call) == {e \in 1..Len(events) : events[e].call = call}
RequestsOfCall(call) == {r \in 1..Len(submitted) : submitted[r].call = call}

\* What C18 says of the event: one INDEX_RISK event of severity high for
\* the snapshot, no other.
OneHighEvent(call) ==
  /\ Cardinality(EventsOfCall(call)) = 1
  /\ \A e \in EventsOfCall(call) :
       /\ events[e].Type = "INDEX_RISK"
       /\ events[e].Severity = "high"
       /\ events[e].stored
  /\ Cardinality(RequestsOfCall(call)) = 1

DropMaxCalls == 3
DropMaxClock == 4

\* A request as emit builds it for a high decision (group risk, both keys
\* set), and a medium priority one.
DropInputs ==
  { AlertRequest(PriorityHigh, "risk", "INDEX_RISK", "d1", "m1", FALSE),
    AlertRequest(PriorityMed, "risk", "PANIC_DROP", "d2", "m1", FALSE) }

\* No dedup window and no merge window, so every call reaches the limiter
\* (15 per minute, burst of one); a digest every two seconds or none
\* (low_interval_sec: 0); the channel is configured.
DropInit ==
  /\ \E digestSec \in {0, 2} : NewService(AlertConfig(0, 0, digestSec), 15, 1)
  /\ aenv = [send |-> {OkResponse}, insert |-> {"ok"}]
  /\ ainputs = DropInputs
  /\ alim = DropMaxCalls
  /\ mono = 0
  /\ allowLog = <<>>
  /\ blim = [calls |-> 0, clock |-> DropMaxClock]
  /\ EngineIdle
  /\ LocksIdle
  /\ AdvisorIdle

SpecDrop == DropInit /\ [][WaitNext]_vars

\* Call c was passed to the channel by its own sendNow.
SentNow(c) == c \in DOMAIN sendLog

\* Call c is in a digest document that was passed to the channel.
InDigestSent(c) ==
  \E i \in 1..Len(digestSends) : \E g \in DOMAIN digestSends[i].groups :
    \E j \in 1..Len(digestSends[i].groups[g]) :
      digestSends[i].groups[g][j] = c

\* Call c is still on its way: a handler runs it, or it waits in a digest
\* bucket or among the pending requests of a merge key.
Pending(c) ==
  \/ \E h \in Callers : hth[h].pc # "idle" /\ hth[h].call = c
  \/ \E g \in DOMAIN digest : \E j \in 1..Len(digest[g]) :
       digest[g][j].call = c
  \/ \E k \in DOMAIN merge : \E j \in 1..Len(merge[k]) :
       merge[k][j].call = c

\* C19: a high priority request of the engine is never dropped: once Handle
\* has returned for it, it has been passed to the channel, by a send of its
\* own or inside a digest document, or it is still held in a bucket that a
\* later flush passes on. Nothing that is neither sent nor held can reach the
\* channel later.
C19_HighNeverDropped ==
  \A c \in DOMAIN results :
    normalize(calls[c].req).Priority = PriorityHigh =>
      SentNow(c) \/ InDigestSent(c) \/ Pending(c)

\* ------------------------------------------------------------ VOLUME_SPIKE
VolumeMaxCalls == 5
VolumeMaxClock == 2

\* volume_spike.ma_points of the scenario.
ScenarioMaPoints == 5

\* A snapshot of one stock at a steady price.
Vol(volume) == Snapshot(SH600000, 1, 10, 0, volume)

\* ma_points = 5 and ratio = 3, a cooldown of one second.
VolumeConfig(maxKeep) ==
  [RawConfig(maxKeep, 1, 1, 55, 60) EXCEPT
     !.VolumeSpike = [MaPoints |-> ScenarioMaPoints, Ratio |-> 3]]

\* The three cases: a usual volume, a tenfold volume and no volume, with
\* window_max_keep left to its default; the same with a negative volume in
\* place of none (the inject route takes any number, router.go:347-372);
\* window_max_keep set to 4, below ma_points.
VolumeCases ==
  { [maxKeep |-> 0, ins |-> {Vol(100), Vol(1000), Vol(0)}],
    [maxKeep |-> 0, ins |-> {Vol(100), Vol(1000), Vol(-100)}],
    [maxKeep |-> 4, ins |-> {Vol(100), Vol(1000)}] }

VolumeInit ==
  /\ LimiterIdle
  /\ AlertIdle
  /\ LocksIdle
  /\ AdvisorIdle
  /\ \E case \in VolumeCases :
       EngineInit({VolumeConfig(case.maxKeep)}, case.ins, {TRUE}, {TRUE},
                  [calls |-> VolumeMaxCalls, clock |-> VolumeMaxClock])

SpecVolume == VolumeInit /\ [][EngineNext]_vars

\* The snapshots of a symbol in the order OnSnapshot appended them.
Arrived(hist, sym) == IF Has(hist, sym) THEN hist[sym] ELSE <<>>

\* The ma_points - 1 snapshots before the last one of h.
Preceding(h, maPoints) == (Len(h) - maPoints + 1) .. (Len(h) - 1)

RECURSIVE SumVolumes(_, _)
SumVolumes(h, S) ==
  IF S = {} THEN 0
  ELSE LET i == CHOOSE j \in S : TRUE
       IN h[i].Volume + SumVolumes(h, S \ {i})

\* current_volume / average >= ratio, the average taken over the snapshots
\* of h at the positions S; no average without a member or at or below zero.
SpikeOver(h, S, ratio) ==
  /\ S # {}
  /\ SumVolumes(h, S) > 0
  /\ h[Len(h)].Volume * Cardinality(S) >= ratio * SumVolumes(h, S)

\* C20 as stated: the rule is due once ma_points snapshots have arrived,
\* against the average of the non-zero volumes before the current one.
SpikeAsStated(c, h) ==
  /\ Len(h) >= c.VolumeSpike.MaPoints
  /\ SpikeOver(h, {i \in Preceding(h, c.VolumeSpike.MaPoints) :
                     h[i].Volume # 0}, c.VolumeSpike.Ratio)

\* The rule as the window allows it: the window, trimmed to window_max_keep,
\* must hold ma_points snapshots, and the average is taken over the positive
\* volumes.
SpikeInWindow(c, h) ==
  /\ Len(h) >= c.VolumeSpike.MaPoints
  /\ c.WindowMaxKeep >= c.VolumeSpike.MaPoints
  /\ SpikeOver(h, {i \in Preceding(h, c.VolumeSpike.MaPoints) :
                     h[i].Volume > 0}, c.VolumeSpike.Ratio)

\* The rules of producer t have run on the snapshot it appended.
RulesRan(t) == eth[t].pc = "append" /\ eth'[t].pc # "append"

\* The firings of a producer include VOLUME_SPIKE, with severity med and
\* the rule's cooldown.
FiresVolumeSpike(c, th) ==
  \E i \in 1..Len(th.todo) :
    /\ th.todo[i].rule = "VOLUME_SPIKE"
    /\ th.todo[i].sev = "med"
    /\ th.todo[i].cd = c.CooldownSec.VolumeSpike

\* Every VOLUME_SPIKE event has severity med and passed the cooldown gate.
VolumeEventsGated ==
  \A e \in 1..Len(events) :
    events[e].Type = "VOLUME_SPIKE" =>
      /\ events[e].Severity = "med"
      /\ \E i \in 1..Len(gateLog) :
           /\ gateLog[i].call = events[e].call
           /\ gateLog[i].pass
           /\ gateLog[i].key
                = cooldownKey("VOLUME_SPIKE", events[e].Symbol, "med")

\* C20 as stated: VOLUME_SPIKE never fires on the first ma_points - 1
\* snapshots of a stock symbol, and from the ma_points-th on it fires
\* (severity med, subject to cooldown) exactly when the current volume
\* divided by the average of the non-zero volumes among the ma_points - 1
\* snapshots before it is >= ratio.
C20_FiresOnceMaPointsArrived ==
  /\ []VolumeEventsGated
  /\ [][\A t \in Threads :
          RulesRan(t) =>
            (FiresVolumeSpike(ecfg, eth'[t])
               <=> SpikeAsStated(ecfg, Arrived(ingested', eth[t].s.Symbol)))]_vars

\* C20 with the window taken into account: VOLUME_SPIKE never fires on the
\* first ma_points - 1 snapshots of a stock symbol, and never when
\* window_max_keep is below ma_points; otherwise, from the ma_points-th
\* snapshot on, it fires (severity med, subject to cooldown) exactly when
\* some of the ma_points - 1 snapshots before the current one have a
\* positive volume and the current volume divided by the average of those
\* positive volumes is >= ratio.
C20_FiresOnceWindowHoldsMaPoints ==
  /\ []VolumeEventsGated
  /\ [][\A t \in Threads :
          RulesRan(t) =>
            (FiresVolumeSpike(ecfg, eth'[t])
               <=> SpikeInWindow(ecfg, Arrived(ingested', eth[t].s.Symbol)))]_vars

\* Volumes 100, 100, 100, 100, 1000 have arrived with ma_points = 5 and
\* ratio = 3: the gate was asked once, by the fifth, and its event is stored.
C20_Witness ==
  /\ ecfg.VolumeSpike.MaPoints = ScenarioMaPoints
  /\ ecfg.VolumeSpike.Ratio = 3
  /\ Len(Arrived(ingested, SH600000)) = ScenarioMaPoints
  /\ \A i \in 1..ScenarioMaPoints :
       ingested[SH600000][i].Volume = IF i < ScenarioMaPoints THEN 100 ELSE 1000
  /\ Len(gateLog) = 1
  /\ gateLog[1].s.Volume = 1000
  /\ Len(events) = 1
  /\ events[1].Type = "VOLUME_SPIKE"
  /\ events[1].Severity = "med"

\* ---------------------------------------------------------- KEY_BREAK_DOWN
KeyBreakMaxCalls == 3
KeyBreakMaxClock == 3

\* Snapshots of sh600000, whose level is 8: below the level, at the level,
\* without a price.
KeyBreakInputs ==
  { Snapshot(SH600000, 1, 7, 0, 100), Snapshot(SH600000, 1, 8, 0, 100),
    Snapshot(SH600000, 1, 0, 0, 100) }

\* A cooldown of two seconds for the stock rules; PANIC_DROP thresholds no
\* drawdown reaches.
KeyBreakInit ==
  /\ LimiterIdle
  /\ AlertIdle
  /\ LocksIdle
  /\ AdvisorIdle
  /\ EngineInit({RawConfig(0, 2, 2, 200, 300)}, KeyBreakInputs, {TRUE}, {TRUE},
                [calls |-> KeyBreakMaxCalls, clock |-> KeyBreakMaxClock])

SpecKeyBreak == KeyBreakInit /\ [][EngineNext]_vars

KeyBreakKey(sym) == cooldownKey("KEY_BREAK_DOWN", sym, "med")

\* 0 < price < level for the level configured for the snapshot's symbol.
BelowLevel(c, s) ==
  /\ s.Symbol \in DOMAIN c.KeyBreakDown.Levels
  /\ 0 < s.Price
  /\ s.Price < c.KeyBreakDown.Levels[s.Symbol]

\* The producers whose KEY_BREAK_DOWN firing has not reached the gate yet.
AwaitingGate(rule) ==
  { t \in Threads :
      LET rest == IF eth[t].pc \in {"gate", "gatelock"} THEN eth[t].todo
                  ELSE IF eth[t].pc \in {"emit", "handle"} THEN Tail(eth[t].todo)
                  ELSE <<>>
      IN \E i \in 1..Len(rest) : rest[i].rule = rule }

\* C21: every snapshot of a stock with 0 < price < level, and no other,
\* asks the cooldown gate for KEY_BREAK_DOWN; a firing passes, and produces
\* exactly one event, iff it is the first of the key or at least
\* cooldown_sec after the last one that passed, so a run of snapshots below
\* the level gives one event per cooldown period.
C21_KeyBreakOneEventPerPeriod ==
  /\ \A i \in GateIdx(KeyBreakKey(SH600000)) :
       LET g == gateLog[i]
           j == LastPass(i)
           n == Cardinality(EventsOf(g.call, g.key))
       IN /\ BelowLevel(ecfg, g.s)
          /\ g.pass <=> (j = 0 \/ g.now - gateLog[j].now >= g.cd)
          /\ ~g.pass => n = 0
          /\ g.pass => n = (IF Emitting(g.call) THEN 0 ELSE 1)
          /\ \A e \in EventsOf(g.call, g.key) :
               events[e].Evidence = [level |-> ecfg.KeyBreakDown.Levels[SH600000]]
  /\ Cardinality({i \in 1..Len(Arrived(ingested, SH600000)) :
                    BelowLevel(ecfg, ingested[SH600000][i])})
       = Cardinality(GateIdx(KeyBreakKey(SH600000)))
           + Cardinality(AwaitingGate("KEY_BREAK_DOWN"))
  /\ \A e \in 1..Len(events) : events[e].Type = "KEY_BREAK_DOWN"

\* Three snapshots below the level: the first passed, the second came less
\* than cooldown_sec later and was suppressed, the third came cooldown_sec
\* after the first and passed; two KEY_BREAK_DOWN events exist.
C21_Witness ==
  /\ Len(gateLog) = 3
  /\ \A i \in 1..3 : gateLog[i].key = KeyBreakKey(SH600000)
  /\ gateLog[1].pass /\ ~gateLog[2].pass /\ gateLog[3].pass
  /\ gateLog[3].now - gateLog[1].now = gateLog[3].cd
  /\ Len(events) = 2

\* ------------------------------------------- emit without store or advisor
StoreMaxCalls == 3

\* sh600000 at 10 and then at 4: a drawdown of 60% (PANIC_DROP high) below
\* the level of 8 (KEY_BREAK_DOWN).
StoreInputs ==
  { Snapshot(SH600000, 1, 10, 0, 100), Snapshot(SH600000, 1, 4, 0, 100) }

\* Neither a store nor an advisor, or both: a store whose insert succeeds
\* or fails and an enabled advisor.
StoreInit ==
  /\ LimiterIdle
  /\ AlertIdle
  /\ LocksIdle
  /\ AdvisorIdle
  /\ \E both \in BOOLEAN :
       EngineStart({RawConfig(0, 2, 5, 55, 60)}, StoreInputs, {both},
                   {TRUE, FALSE}, {both},
                   [calls |-> StoreMaxCalls, clock |-> 1])

\* The steps of OnSnapshot while the clock stands at its first reading.
StoreNext ==
  \/ \E t \in Threads : OnSnapshotEnter(t)
  \/ \E t \in Threads : OnSnapshotAppend(t)
  \/ \E t \in Threads : checkCooldownNow(t)
  \/ \E t \in Threads : checkCooldownLocked(t)
  \/ \E t \in Threads : emitInsert(t)
  \/ \E t \in Threads : emitHandle(t)

SpecStore == StoreInit /\ [][StoreNext]_vars

\* The firings of returned calls that the cooldown gate let through.
PassedFirings ==
  { i \in 1..Len(gateLog) : gateLog[i].pass /\ Ingested(gateLog[i].call) }

\* The requests submitted for the firing gateLog[i].
RequestsFor(i) ==
  { r \in 1..Len(submitted) :
      /\ submitted[r].call = gateLog[i].call
      /\ submitted[r].Title = <<gateLog[i].key[2], gateLog[i].key[1]>> }

\* C22: without a store a firing that is not in cooldown is still decided
\* on, with event id 0, and its alert request is still submitted.
C22_NoStoreStillSubmits ==
  ~estore =>
    \A i \in PassedFirings :
      /\ Cardinality(RequestsFor(i)) = 1
      /\ \A r \in RequestsFor(i) : submitted[r].EventID = 0


\* The events emitted for the firing gateLog[i].
EventsFor(i) == EventsOf(gateLog[i].call, gateLog[i].key)

\* C23: with a store, a failed event insert or a failed advisor call does
\* not abort the snapshot: every firing of a returned call that passed the
\* gate has its one event (id 0 when the insert failed) and its one alert
\* request carrying that id; after a failed advisor call the request has the
\* priority of the fallback decision, the event's severity; and the rules
\* after the one that emitted were evaluated (a snapshot below its level
\* that fired PANIC_DROP also asked the gate for KEY_BREAK_DOWN).
C23_FailuresDoNotAbort ==
  estore =>
    /\ \A i \in PassedFirings :
         /\ Cardinality(EventsFor(i)) = 1
         /\ Cardinality(RequestsFor(i)) = 1
         /\ \A e \in EventsFor(i) : \A r \in RequestsFor(i) :
              /\ events[e].id = 0 <=> ~events[e].stored
              /\ submitted[r].EventID = events[e].id
              /\ submitted[r].advisor \in {"error", "fallback"}
                   => submitted[r].Priority = events[e].Severity
              /\ submitted[r].advisor = "error" => eagent
    /\ \A i \in 1..Len(gateLog) :
         ( /\ gateLog[i].key[1] = "PANIC_DROP"
           /\ Ingested(gateLog[i].call)
           /\ BelowLevel(ecfg, gateLog[i].s) )
           => \E j \in 1..Len(gateLog) :
                /\ j > i
                /\ gateLog[j].call = gateLog[i].call
                /\ gateLog[j].key = KeyBreakKey(gateLog[i].s.Symbol)

\* A returned call fired PANIC_DROP and KEY_BREAK_DOWN: the insert of the
\* first event failed and the advisor failed on it, its request went out
\* with event id 0 and priority high, and the second event is stored.
C23_Witness ==
  /\ estore /\ eagent
  /\ \E i, j \in PassedFirings :
       /\ gateLog[i].call = gateLog[j].call
       /\ gateLog[i].key[1] = "PANIC_DROP"
       /\ gateLog[j].key[1] = "KEY_BREAK_DOWN"
       /\ \E e \in EventsFor(i) : ~events[e].stored
       /\ \E r \in RequestsFor(i) :
            /\ submitted[r].advisor = "error"
            /\ submitted[r].EventID = 0
            /\ submitted[r].Priority = PriorityHigh
       /\ \E e \in EventsFor(j) : events[e].stored /\ events[e].id > 0

\* ------------------------------------------------- the fallback decision
\* strings.ToUpper / strings.ToLower on the event types callers send.
UpperType(t) ==
  CASE t = "panic_drop" -> "PANIC_DROP" [] t = "index_risk" -> "INDEX_RISK"
    [] t = "key_break_down" -> "KEY_BREAK_DOWN" [] OTHER -> t

LowerType(t) ==
  CASE t = "PANIC_DROP" -> "panic_drop" [] t = "INDEX_RISK" -> "index_risk"
    [] t = "KEY_BREAK_DOWN" -> "key_break_down" [] OTHER -> t

\* Go's integer division truncates toward zero.
Quot(a, b) == IF a >= 0 THEN a \div b ELSE -((-a) \div b)

\* EventInput.Evidence is a string: empty, not a JSON object, or a JSON
\* object with or without a numeric threshold.
Evidence(kind, threshold) == [kind |-> kind, threshold |-> threshold]

EventInput(id, type, severity, changePct, drawdownPct, windowSec, evidence) ==
  [EventID |-> id, Type |-> type, Severity |-> severity,
   ChangePct |-> changePct, DrawdownPct |-> drawdownPct,
   WindowSec |-> windowSec, Evidence |-> evidence]

\* agent.go:381-403: getFloat(parseEvidenceMap(s)["threshold"]).
thresholdOf(evidence) ==
  IF evidence.kind = "object" THEN evidence.threshold ELSE 0

\* agent.go:330-345.
buildGenericWhy(in) ==
  LET a == IF in.ChangePct # 0 THEN << <<"change_pct", in.ChangePct>> >>
           ELSE <<>>
      b == IF in.DrawdownPct # 0
           THEN Append(a, <<"drawdown_pct", in.DrawdownPct>>) ELSE a
      c == IF in.WindowSec > 0
           THEN Append(b, <<"window_sec", in.WindowSec>>) ELSE b
  IN IF in.Evidence.kind # "empty" /\ Len(c) < 3
     THEN Append(c, <<"evidence_json present">>) ELSE c

\* agent.go:347-356.
buildActionFromSeverity(sev) ==
  CASE sev = "high" -> <<"reduce exposure", "tighten risk limits",
                         "increase monitoring frequency">>
    [] sev = "med" -> <<"monitor closely", "review positions",
                        "tighten stop-loss rules">>
    [] OTHER -> <<"monitor and collect more signals">>

\* agent.go:358-363.
trimList(list, n) == IF Len(list) > n THEN SubSeq(list, 1, n) ELSE list

\* agent.go:296-328: the pair of why and action.
buildWhyAction(in) ==
  LET typ == UpperType(in.Type)
      threshold == thresholdOf(in.Evidence)
      drawdown == IF in.DrawdownPct > 0 THEN -in.DrawdownPct
                  ELSE in.DrawdownPct
      mins0 == Quot(in.WindowSec, 60)
      mins == IF mins0 <= 0 THEN 5 ELSE mins0
      cp == IF in.ChangePct > 0 THEN -in.ChangePct ELSE in.ChangePct
      generic == [why |-> buildGenericWhy(in),
                  action |-> buildActionFromSeverity(LowerWord(in.Severity))]
  IN
  IF typ = "PANIC_DROP" /\ drawdown # 0 /\ threshold # 0
  THEN [why |-> << <<"drawdown", mins, drawdown, threshold>> >>,
        action |-> <<"reduce or tighten stops", "wait for a confirmed bottom">>]
  ELSE IF typ = "INDEX_RISK" /\ cp # 0 /\ threshold # 0
  THEN [why |-> << <<"index down", cp, threshold>> >>,
        action |-> <<"lower the position cap", "defend first">>]
  ELSE generic

\* A fallback whose lists are handed on as buildWhyAction built them.
fallbackFromEventKeepsEmpty(in) ==
  LET sev0 == LowerWord(in.Severity)
      sev == IF sev0 \in {"high", "med"} THEN sev0 ELSE "low"
      wa == buildWhyAction(in)
  IN [RiskLevel |-> CASE sev = "high" -> 5 [] sev = "med" -> 3 [] OTHER -> 1,
      Severity |-> sev,
      OneLiner |-> <<sev, "risk assessment based on event severity">>,
      Why |-> trimList(wa.why, 3),
      ActionHint |-> trimList(wa.action, 3),
      ConfidenceTenths |-> CASE sev = "high" -> 7 [] sev = "med" -> 5
                             [] OTHER -> 4,
      Tags |-> <<LowerType(in.Type), "fallback">>]

\* A fallback that stamps its decision with the time of the call.
fallbackFromEventStamped(in) ==
  [fallbackFromEventKeepsEmpty(in) EXCEPT
     !.Tags = <<LowerType(in.Type), "fallback", clock>>]

\* agent.go:260-294; the confidence is kept in tenths.
fallbackFromEvent(in) ==
  LET sev0 == LowerWord(in.Severity)
      sev == IF sev0 \in {"high", "med"} THEN sev0 ELSE "low"
      wa == buildWhyAction(in)
      why == IF Len(wa.why) = 0
             THEN << <<"evidence provided in event payload">> >> ELSE wa.why
      action == IF Len(wa.action) = 0
                THEN <<"monitor and reduce exposure risk">> ELSE wa.action
  IN [RiskLevel |-> CASE sev = "high" -> 5 [] sev = "med" -> 3 [] OTHER -> 1,
      Severity |-> sev,
      OneLiner |-> <<sev, "risk assessment based on event severity">>,
      Why |-> trimList(why, 3),
      ActionHint |-> trimList(action, 3),
      ConfidenceTenths |-> CASE sev = "high" -> 7 [] sev = "med" -> 5
                             [] OTHER -> 4,
      Tags |-> <<LowerType(in.Type), "fallback">>]


FallbackMaxCalls == 3
FallbackMaxClock == 2

\* agent.go:185-187, called by the engine without an advisor, by Evaluate
\* and by the risk evaluation route (router.go:476-483).
FallbackDecision ==
  /\ Len(decisions) < FallbackMaxCalls
  /\ \E in \in dpool :
       decisions' = Append(decisions, [in |-> in, at |-> clock,
                                       out |-> fallbackFromEvent(in)])
  /\ UNCHANGED <<dpool, wvars, mvars, evars, bvars, avars, lvars>>

\* Event types in either case or none; severities in either case, unknown
\* or empty; numeric evidence negative, zero or positive; every kind of
\* evidence string.
FallbackInputs ==
  { EventInput(7, type, severity, changePct, drawdownPct, windowSec,
               Evidence(kind, threshold)) :
      type \in {"PANIC_DROP", "index_risk", "KEY_BREAK_DOWN", ""},
      severity \in {"high", "HIGH", "med", "low", "urgent", ""},
      changePct \in {-4, 0, 4}, drawdownPct \in {-60, 0, 60},
      windowSec \in {-1, 0, 120},
      kind \in {"empty", "invalid", "object"}, threshold \in {0, 3} }

\* The inputs emit builds for the firings of the four rules.
EngineInputs ==
  { EventInput(1, "INDEX_RISK", "high", -4, 0, 0, Evidence("object", 3)),
    EventInput(2, "PANIC_DROP", "med", 0, -60, 120, Evidence("object", 55)),
    EventInput(0, "KEY_BREAK_DOWN", "med", 0, 0, 0, Evidence("object", 0)),
    EventInput(0, "VOLUME_SPIKE", "med", 0, 0, 0, Evidence("object", 0)) }

\* One caller with one input out of all of them, or callers with two of the
\* inputs the engine builds; the clock runs while they call.
FallbackInit ==
  /\ LimiterIdle
  /\ AlertIdle
  /\ LocksIdle
  /\ EngineInit({RawConfig(0, 0, 0, 0, 0)}, {}, {FALSE}, {TRUE},
                [calls |-> 0, clock |-> FallbackMaxClock])
  /\ dpool \in {{in} : in \in FallbackInputs}
                 \cup {{a, b} : a, b \in EngineInputs}
  /\ decisions = <<>>
  /\ SlicesIdle
  /\ MarketIdle

FallbackNext == FallbackDecision \/ Tick

SpecFallback == FallbackInit /\ [][FallbackNext]_vars

C25_FallbackDecisionValid ==
  \A i \in 1..Len(decisions) :
    LET out == decisions[i].out IN
    /\ out.RiskLevel \in 1..5
    /\ out.Severity \in {"low", "med", "high"}
    /\ Len(out.Why) \in 1..3
    /\ Len(out.ActionHint) \in 1..3

\* A decision for an input with an unknown severity, no event type, no
\* numeric evidence and no evidence string: the defaults fill both lists.
C25_Witness ==
  \E i \in 1..Len(decisions) :
    /\ decisions[i].in.Severity = "urgent"
    /\ decisions[i].in.Type = ""
    /\ decisions[i].in.ChangePct = 0 /\ decisions[i].in.DrawdownPct = 0
    /\ decisions[i].in.WindowSec = 0
    /\ decisions[i].in.Evidence.kind = "empty"
    /\ decisions[i].out.Severity = "low"
    /\ decisions[i].out.RiskLevel = 1
    /\ Len(decisions[i].out.Why) = 1


\* ------------------------------------------- the last-trigger timestamps
StampMaxCalls == 3
StampMaxClock == 2

\* A stock below its key level of 8 on every snapshot, with a volume that is
\* ordinary or ten times that: KEY_BREAK_DOWN fires on every call and
\* VOLUME_SPIKE with it once two ordinary snapshots precede, two keys with a
\* cooldown of 1 s each. The engine has no store.
StampInputs ==
  { Snapshot(SH600000, 1, 4, 0, 100), Snapshot(SH600000, 1, 4, 0, 1000) }

StampInit ==
  /\ LimiterIdle
  /\ AlertIdle
  /\ LocksIdle
  /\ AdvisorIdle
  /\ EngineInit({RawConfig(0, 2, 1, 55, 60)}, StampInputs, {FALSE}, {TRUE},
                [calls |-> StampMaxCalls, clock |-> StampMaxClock])

\* Without a store emit returns at once (engine.go:263-266): the calls take
\* the gate and nothing else.
StampNext ==
  \/ Tick
  \/ \E t \in Threads : OnSnapshotEnter(t)
  \/ \E t \in Threads : OnSnapshotAppend(t)
  \/ \E t \in Threads : checkCooldownNow(t)
  \/ \E t \in Threads : checkCooldownLocked(t)

SpecStamp == StampInit /\ [][StampNext]_vars

\* The firings of a key that passed the gate, in the order the gate saw them.
PassesOf(key) ==
  SelectSeq(gateLog, LAMBDA g : g.key = key /\ g.pass)

\* C26: the last-trigger timestamp of a cooldown key never decreases and
\* changes only on a firing of that key that was not suppressed: in every
\* state it is the clock reading of the key's last passed firing (absent
\* before the first), and the readings of a key's passed firings increase.
C26_StampIsLastPassAndGrows ==
  \A key \in {gateLog[i].key : i \in 1..Len(gateLog)} \cup DOMAIN cooldown :
    LET ps == PassesOf(key) IN
    /\ Has(cooldown, key) <=> Len(ps) > 0
    /\ Len(ps) > 0 => cooldown[key] = ps[Len(ps)].now
    /\ \A i \in 1..Len(ps) - 1 : ps[i].now < ps[i + 1].now

\* One key passed twice; between the two a firing of the other key passed,
\* and after them a firing of the first key that read the clock before the
\* second pass was suppressed. The stamp is that of the second pass.
C26_Witness ==
  \E i, j, l, m \in 1..Len(gateLog) :
    /\ i < j /\ j < l /\ l < m
    /\ gateLog[i].key = gateLog[l].key /\ gateLog[m].key = gateLog[i].key
    /\ gateLog[j].key # gateLog[i].key
    /\ gateLog[i].pass /\ gateLog[j].pass /\ gateLog[l].pass
    /\ ~gateLog[m].pass /\ gateLog[m].now < gateLog[l].now
    /\ cooldown[gateLog[i].key] = gateLog[l].now
    /\ cooldown[gateLog[j].key] = gateLog[j].now


\* ------------------------------------------ the rules and the index symbol
SymbolMaxCalls == 2
SymbolMaxClock == 2

SZ399001 == <<"s","z","3","9","9","0","0","1">>

\* index_risk.symbol left empty (sh000001 by default) or set to sz399001,
\* with a key level of 8 for either index symbol and for the stock.
SymbolConfigs ==
  { [RawConfig(0, 2, 2, 55, 60) EXCEPT
       !.IndexRisk.Symbol = sym,
       !.KeyBreakDown.Levels = (SH000001 :> 8) @@ (SZ399001 :> 8) @@ @] :
      sym \in {Empty, SZ399001} }

\* Both index symbols and a stock, each 4% down at a price of 4.
SymbolInputs ==
  { Snapshot(sym, 1, 4, -4, 100) : sym \in {SH000001, SZ399001, SH600000} }

SymbolInit ==
  /\ LimiterIdle
  /\ AlertIdle
  /\ LocksIdle
  /\ AdvisorIdle
  /\ EngineInit(SymbolConfigs, SymbolInputs, {TRUE}, {TRUE},
                [calls |-> SymbolMaxCalls, clock |-> SymbolMaxClock])

SpecSymbol == SymbolInit /\ [][EngineNext]_vars

StockRules == {"PANIC_DROP", "VOLUME_SPIKE", "KEY_BREAK_DOWN"}

\* C27: whatever index symbol is configured, INDEX_RISK fires only for
\* snapshots of that symbol, and PANIC_DROP, VOLUME_SPIKE and KEY_BREAK_DOWN
\* fire only for snapshots of symbols of the form sh/sz + 6 digits other
\* than it.
C27_RulesSplitOnConfiguredIndex ==
  \A i \in 1..Len(gateLog) :
    LET g == gateLog[i]
        index == ToLower(ecfg.IndexRisk.Symbol)
        sym == ToLower(g.s.Symbol)
    IN /\ g.key[1] = "INDEX_RISK" => g.s.Symbol = index
       /\ g.key[1] \in StockRules =>
            /\ sym # index
            /\ Len(sym) = 8
            /\ SubSeq(sym, 1, 2) \in {<<"s","h">>, <<"s","z">>}
            /\ \A d \in 3..8 : sym[d] \in Digits


\* ----------------------------------------------------- the digest flush
DigestMaxCalls == 4
DigestMaxClock == 2

\* Low priority requests: two of group risk, one without group and title.
DigestInputs ==
  { AlertRequest(PriorityLow, "risk", "a", "", "", FALSE),
    AlertRequest(PriorityLow, "risk", "b", "", "", FALSE),
    AlertRequest(PriorityLow, "", "", "", "", FALSE) }

\* No dedup or merge window, a digest every second, with and without a
\* channel.
DigestInit ==
  /\ \E dt \in BOOLEAN :
       NewService([AlertConfig(0, 0, 1) EXCEPT !.dt = dt], 15, 1)
  /\ aenv = [send |-> {OkResponse}, insert |-> {"ok"}]
  /\ ainputs = DigestInputs
  /\ alim = DigestMaxCalls
  /\ mono = 0
  /\ allowLog = <<>>
  /\ blim = [calls |-> 0, clock |-> DigestMaxClock]
  /\ EngineIdle
  /\ LocksIdle
  /\ AdvisorIdle

\* The steps of low priority calls without keys, and the ticker.
DigestNext ==
  \/ \E h \in Callers :
       \/ Handle(h)
       \/ addDigest(h)
  \/ flushDigest
  \/ TickMono

SpecDigest == DigestInit /\ [][DigestNext]_vars

\* The digest ticker has fired in this step.
Flushed == digestDue' # digestDue

\* The document just passed to the channel is that of the buckets pending
\* before the step.
SentPending ==
  /\ Len(digestSends') = Len(digestSends) + 1
  /\ SubSeq(digestSends', 1, Len(digestSends)) = digestSends
  /\ LET e == digestSends'[Len(digestSends')] IN
     /\ DOMAIN e.groups = DOMAIN digest
     /\ \A g \in DOMAIN digest : e.groups[g] = callsOf(digest[g])
     /\ Len(e.doc) = Cardinality(DOMAIN digest)
     /\ \A i \in 1..Len(e.doc) - 1 :
          LessString(e.doc[i].group, e.doc[i + 1].group)
     /\ \A i \in 1..Len(e.doc) :
          /\ e.doc[i].group \in DOMAIN digest
          /\ e.doc[i].items =
               [j \in 1..Len(digest[e.doc[i].group]) |->
                  digestItem(digest[e.doc[i].group][j].req)]

\* Between flushes no document is sent and every bucket keeps its members,
\* new ones coming last.
BucketsGrow ==
  /\ digestSends' = digestSends
  /\ \A g \in DOMAIN digest :
       /\ g \in DOMAIN digest'
       /\ Len(digest'[g]) >= Len(digest[g])
       /\ SubSeq(digest'[g], 1, Len(digest[g])) = digest[g]

FlushStep(always) ==
  IF ~Flushed THEN BucketsGrow
  ELSE /\ digest' = <<>>
       /\ IF DOMAIN digest # {} /\ (always \/ acfg.dt) THEN SentPending
          ELSE digestSends' = digestSends

\* C28, as stated: a flush takes all pending buckets and leaves none, so a
\* queued request is in exactly one flush; a flush with nothing pending
\* makes no channel call, one with pending requests makes exactly one, with
\* the groups in lexicographic order and the members in arrival order.
C28_FlushSendsPendingOnce == [][FlushStep(TRUE)]_vars

\* C28: the same, where a flush with pending requests makes its one channel
\* call when a channel is configured and none when there is no channel (the
\* requests it took are discarded).
C28_FlushSendsPendingOnceIfChannel == [][FlushStep(FALSE)]_vars

\* A flush with nothing pending sent nothing; the next one sent one document
\* with group default before group risk and the two members of risk in the
\* order they were queued, b before a; a request queued after it is pending.
C28_Witness ==
  /\ acfg.dt
  /\ digestDue = 3
  /\ Len(digestSends) = 1
  /\ Len(digestSends[1].doc) = 2
  /\ digestSends[1].doc[1].group = "default"
  /\ digestSends[1].doc[1].items[1].title.base = "(no title)"
  /\ digestSends[1].doc[2].group = "risk"
  /\ Len(digestSends[1].doc[2].items) = 2
  /\ digestSends[1].doc[2].items[1].title.base = "b"
  /\ digestSends[1].doc[2].items[2].title.base = "a"
  /\ DOMAIN digest = {"risk"}
  /\ Len(digest["risk"]) = 1
  /\ ~InDigestSent(digest["risk"][1].call)


\* --------------------------------------------- the window as a Go slice
SliceMaxCalls == 4

\* Snapshots of one stock that differ in price.
SliceInputs ==
  { Snapshot(SH600000, 1, 10, 0, 100), Snapshot(SH600000, 1, 5, 0, 100) }

\* The elements a slice shows: the cells of its array from its offset on.
Deref(h) == [i \in 1..h.len |-> backing[h.arr].cells[h.off + i]]

Capacity(h) == IF h.arr = 0 THEN 0 ELSE backing[h.arr].cap - h.off

\* The zero value of store.MarketSnapshot, in the cells not written yet.
ZeroSnapshot == Snapshot(Empty, 0, 0, 0, 0)

\* Go's append of one element: in place, in the cell after the last, when
\* the capacity allows; else into a new array of capacity newcap that
\* starts with a copy of the elements. Yields the arrays and the slice.
appendSlice(arrays, h, s, newcap) ==
  IF h.len < (IF h.arr = 0 THEN 0 ELSE arrays[h.arr].cap - h.off)
  THEN [arrays |-> [arrays EXCEPT ![h.arr].cells[h.off + h.len + 1] = s],
        slice |-> [h EXCEPT !.len = h.len + 1]]
  ELSE [arrays |-> Append(arrays,
          [cap |-> newcap,
           cells |-> [i \in 1..newcap |->
                        IF i <= h.len THEN arrays[h.arr].cells[h.off + i]
                        ELSE IF i = h.len + 1 THEN s ELSE ZeroSnapshot]]),
        slice |-> [arr |-> Len(arrays) + 1, off |-> 0, len |-> h.len + 1]]

\* A trim that moves the newest elements to the front of the array.
trimWindowSliceInPlace(arrays, h, maxKeep) ==
  IF maxKeep > 0 /\ h.len > maxKeep
  THEN [arrays |-> [arrays EXCEPT ![h.arr].cells =
                      [i \in 1..arrays[h.arr].cap |->
                         IF i > h.off /\ i <= h.off + maxKeep
                         THEN @[i + h.len - maxKeep] ELSE @[i]]],
        slice |-> [h EXCEPT !.len = maxKeep]]
  ELSE [arrays |-> arrays, slice |-> h]

\* engine.go:128-134: window[len(window)-maxKeep:] moves the start of the
\* slice and leaves the array alone.
trimWindowSlice(arrays, h, maxKeep) ==
  IF maxKeep > 0 /\ h.len > maxKeep
  THEN [arrays |-> arrays,
        slice |-> [h EXCEPT !.off = h.off + (h.len - maxKeep),
                            !.len = maxKeep]]
  ELSE [arrays |-> arrays, slice |-> h]

\* The capacities append may give a new array that has to hold n elements:
\* at least n, doubled at most (the size classes of the allocator round up).
NewCaps(n) == n..(2 * n)

\* engine.go:118-125 on slices: under e.mu the producer appends to the
\* stored slice, trims and stores; runRules gets the slice it stored.
OnSnapshotSlices(t) ==
  /\ ~views[t].held
  /\ keep.calls > 0
  /\ \E s \in SliceInputs : \E newcap \in NewCaps(stored.len + 1) :
       LET grown == appendSlice(backing, stored, s, newcap)
           window == trimWindowSlice(grown.arrays, grown.slice, keep.maxKeep)
       IN
       /\ backing' = window.arrays
       /\ stored' = window.slice
       /\ views' = [views EXCEPT ![t] =
            [held |-> TRUE, slice |-> window.slice, pos |-> Len(appends) + 1]]
       /\ appends' = Append(appends, s)
  /\ keep' = [keep EXCEPT !.calls = @ - 1]
  /\ UNCHANGED <<dpool, decisions, mvars, evars, bvars, avars, lvars>>

\* engine.go:136-141: runRules returns, the producer lets go of its slice.
runRulesReturns(t) ==
  /\ views[t].held
  /\ views' = [views EXCEPT ![t] = NoView]
  /\ UNCHANGED <<backing, stored, appends, keep, dpool, decisions, mvars, evars,
                 bvars, avars, lvars>>

\* A cap of two or the default of engine.New; no window yet.
SliceInit ==
  /\ LimiterIdle
  /\ AlertIdle
  /\ LocksIdle
  /\ EngineIdle
  /\ dpool = {}
  /\ decisions = <<>>
  /\ backing = <<>>
  /\ stored = NilSlice
  /\ views = [t \in Threads |-> NoView]
  /\ appends = <<>>
  /\ keep \in {[maxKeep |-> New(RawConfig(k, 0, 0, 0, 0)).WindowMaxKeep,
                calls |-> SliceMaxCalls] : k \in {0, 2}}
  /\ MarketIdle

SliceNext ==
  \/ \E t \in Threads : OnSnapshotSlices(t)
  \/ \E t \in Threads : runRulesReturns(t)

SpecSlice == SliceInit /\ [][SliceNext]_vars

\* The last min(n, cap) of the first n snapshots appended.
LastOf(n) ==
  LET k == Min(n, keep.maxKeep) IN SubSeq(appends, n - k + 1, n)

\* C29: in every interleaving of concurrent OnSnapshot calls for a symbol,
\* the window a call hands to rule evaluation ends with the call's own
\* snapshot and holds exactly the snapshots appended up to it (the cap's
\* worth of them) in append order, for as long as the rules read it,
\* whatever is appended later; and the stored window loses no append.
C29_ViewIsFixedAndComplete ==
  /\ Deref(stored) = LastOf(Len(appends))
  /\ \A t \in Threads : views[t].held =>
       /\ views[t].slice.len > 0
       /\ Deref(views[t].slice)[views[t].slice.len] = appends[views[t].pos]
       /\ Deref(views[t].slice) = LastOf(views[t].pos)

\* A producer still holds the window it got at the second append, cut to
\* the cap of two; two later appends went into the same array behind it,
\* one of a concurrent producer that holds its own window, and the stored
\* window has moved on.
C29_Witness ==
  \E t, u \in Threads :
    /\ t # u
    /\ keep.maxKeep = 2
    /\ views[t].held /\ views[t].pos = 2
    /\ views[u].held /\ views[u].pos = 4
    /\ views[t].slice.arr = views[u].slice.arr
    /\ Deref(views[t].slice) # Deref(views[u].slice)
    /\ Deref(views[u].slice) = Deref(stored)


\* ------------------------------------------------------------ no retry
RetryMaxCalls == 3
RetryMaxClock == 2

\* Medium priority requests, one without keys and one with a merge key.
RetryInputs ==
  { AlertRequest(PriorityMed, "risk", "a", "", "", FALSE),
    AlertRequest(PriorityMed, "risk", "m", "", "m1", FALSE) }

\* A merge window and a digest interval of one second, a limiter of 15 per
\* minute with a burst of one, a channel that answers in every way it can.
RetryInit ==
  /\ NewService(AlertConfig(0, 1, 1), 15, 1)
  /\ aenv = [send |-> SendOutcomes, insert |-> {"ok"}]
  /\ ainputs = RetryInputs
  /\ alim = RetryMaxCalls
  /\ mono = 0
  /\ allowLog = <<>>
  /\ blim = [calls |-> 0, clock |-> RetryMaxClock]
  /\ EngineIdle
  /\ LocksIdle
  /\ AdvisorIdle

\* The steps of medium priority calls without a dedup key, the merge timers
\* and the digest ticker.
RetryNext ==
  \/ \E h \in Callers :
       \/ Handle(h)
       \/ enqueueMerge(h)
       \/ handleSendOrDigest(h)
       \/ addDigest(h)
       \/ sendNow(h)
       \/ \E id \in timers : flushMerge(h, id)
  \/ flushDigest
  \/ TickMono

SpecRetry == RetryInit /\ [][RetryNext]_vars

\* The places of call c in the digest documents passed to the channel.
DigestPlaces(c) ==
  { <<i, g, j>> \in UNION { UNION { { <<i, g, j>> :
        j \in 1..Len(digestSends[i].groups[g]) } :
        g \in DOMAIN digestSends[i].groups } : i \in 1..Len(digestSends) } :
      digestSends[i].groups[g][j] = c }

\* Call c waits in a digest bucket or among the requests of a merge key.
Queued(c) ==
  \/ \E g \in DOMAIN digest : \E j \in 1..Len(digest[g]) :
       digest[g][j].call = c
  \/ \E k \in DOMAIN merge : \E j \in 1..Len(merge[k]) :
       merge[k][j].call = c

\* The digest ticker has fired this many times.
DigestTicks == (digestDue - acfg.LowDigestInterval) \div acfg.LowDigestInterval

\* C30: the core never retries a delivery: a Handle call makes at most one
\* Send call and a digest flush makes at most one; a request whose Send was
\* made, failed or not, is in no bucket, no merge state and no digest
\* document afterwards, and a request is in at most one digest document,
\* failed or not, and in no bucket once it is in one.
C30_NoRetry ==
  /\ \A c \in DOMAIN effects :
       /\ effects[c].send <= 1
       /\ effects[c].send = 1 <=> c \in DOMAIN sendLog
       /\ Cardinality(DigestPlaces(c)) <= 1
       /\ c \in DOMAIN sendLog => DigestPlaces(c) = {} /\ ~Queued(c)
       /\ DigestPlaces(c) # {} => ~Queued(c)
  /\ Len(digestSends) <= DigestTicks

\* A Send of a call failed and the call returned; the request that found no
\* token went into a digest document whose Send the channel refused; a
\* merge timer and a later tick of the digest ticker have run since, and
\* nothing was sent again.
C30_Witness ==
  /\ \E c \in DOMAIN sendLog :
       /\ sendLog[c].failed
       /\ c \in DOMAIN results
       /\ effects[c].send = 1
  /\ Len(digestSends) = 1
  /\ digestSends[1].outcome.ErrCode # 0
  /\ DigestTicks = 2
  /\ digest = <<>>
  /\ Len(flushes) > 0
  /\ timers = {}
  /\ \A h \in Callers : hth[h].pc = "idle"


\* ------------------------------------------------- suppressed firings
\* The gate has just suppressed a firing.
Suppressed ==
  /\ Len(gateLog') = Len(gateLog) + 1
  /\ ~gateLog'[Len(gateLog')].pass

\* No suppressed firing has an Event or an alert request.
SuppressedLeaveNoTrace ==
  \A i \in 1..Len(gateLog) :
    ~gateLog[i].pass =>
      /\ EventsOf(gateLog[i].call, gateLog[i].key) = {}
      /\ \A r \in 1..Len(submitted) :
           ~(/\ submitted[r].call = gateLog[i].call
             /\ submitted[r].Title[2] = gateLog[i].key[1])
      /\ LastPass(i) # 0
      /\ gateLog[i].now - gateLog[LastPass(i)].now < gateLog[i].cd

\* C31: a firing the cooldown gate suppresses changes nothing: it has no
\* Event and no alert request, and the step that suppresses it leaves the
\* cooldown map, the events, the requests and the windows as they were, so
\* the period runs from the last firing that passed.
C31_SuppressedChangesNothing ==
  /\ []SuppressedLeaveNoTrace
  /\ [][Suppressed =>
          /\ cooldown' = cooldown
          /\ events' = events
          /\ submitted' = submitted
          /\ windows' = windows]_vars

\* A firing passed at 1 and its event is stored; the next, at 2, was
\* suppressed and left the stamp at 1; the third, at 3, is two seconds
\* after the first and one after the second, and passed.
C31_Witness ==
  /\ Len(gateLog) = 3
  /\ gateLog[1].pass /\ gateLog[1].now = 1
  /\ ~gateLog[2].pass /\ gateLog[2].now = 2
  /\ gateLog[3].pass /\ gateLog[3].now = 3
  /\ gateLog[2].cd = 2
  /\ cooldown[gateLog[2].key] = 3
  /\ Len(events) = 2
  /\ Len(submitted) = 2
  /\ \A t \in Threads : eth[t].pc = "idle"


\* ------------------------------------------- one severity per snapshot
SeverityMaxCalls == 3

\* The index 2% down (med) or 4% down (high); or a stock at 10, at 7 (30%
\* below its maximum: med at 25%) and at 4 (60% below: high at 55%).
SeverityInputSets ==
  { { Snapshot(SH000001, 1, 10, -2, 100), Snapshot(SH000001, 1, 10, -4, 100) },
    { Snapshot(SH600000, 1, 10, 0, 100), Snapshot(SH600000, 1, 7, 0, 100),
      Snapshot(SH600000, 1, 4, 0, 100) } }

\* Cooldowns of 2 s, PANIC_DROP at 25% / 55%, no key level.
SeverityInit ==
  /\ LimiterIdle
  /\ AlertIdle
  /\ LocksIdle
  /\ AdvisorIdle
  /\ \E ins \in SeverityInputSets :
       EngineInit({[RawConfig(0, 2, 2, 25, 55) EXCEPT
                      !.KeyBreakDown.Levels = <<>>]},
                  ins, {TRUE}, {TRUE},
                  [calls |-> SeverityMaxCalls, clock |-> 1])

\* The clock stands still: every firing is inside the period of its key.
SpecSeverity == SeverityInit /\ [][StoreNext]_vars

SeverityRules == {"INDEX_RISK", "PANIC_DROP"}

\* The firings of a rule the gate was asked about for a call.
AskedOf(call, rule) ==
  { i \in 1..Len(gateLog) :
      gateLog[i].call = call /\ gateLog[i].key[1] = rule }

\* C32: for INDEX_RISK and PANIC_DROP a snapshot asks the gate about one
\* severity at most and has one event of the rule at most; a snapshot of
\* the index at or below -high_pct asks about high only, and a PANIC_DROP
\* event is high exactly at a drawdown of high_pct or more; and each
\* severity has its own period: a firing passes exactly when no firing of its own
\* key passed less than cooldown_sec before it.
C32_OneSeverityOwnPeriod ==
  /\ \A call \in 1..ncalls : \A rule \in SeverityRules :
       /\ Cardinality(AskedOf(call, rule)) <= 1
       /\ Cardinality({e \in 1..Len(events) :
             events[e].call = call /\ events[e].Type = rule}) <= 1
  /\ \A i \in 1..Len(gateLog) :
       LET g == gateLog[i] IN
       g.key[1] \in SeverityRules =>
         /\ g.key[3] \in {"high", "med"}
         /\ g.key[1] = "INDEX_RISK" =>
              (g.key[3] = "high" <=> g.s.ChangePct <= -ecfg.IndexRisk.HighPct)
         /\ g.pass <=> (LastPass(i) = 0
                          \/ g.now - gateLog[LastPass(i)].now >= g.cd)
         /\ ~g.pass => EventsOf(g.call, g.key) = {}
  /\ \A e \in 1..Len(events) :
       events[e].Type = "PANIC_DROP" =>
         (events[e].Severity = "high"
            <=> events[e].Evidence.drawdown_num
                  <= -(ecfg.PanicDrop.HighPct * events[e].Evidence.drawdown_den))

\* A med firing of the index passed; a high firing at the same second
\* passed as well; the next snapshot at the high threshold, still at that
\* second, was suppressed and the med key was not asked for it: two events.
C32_Witness ==
  /\ Len(gateLog) = 3
  /\ gateLog[1].key[1] = "INDEX_RISK" /\ gateLog[1].key[3] = "med"
  /\ gateLog[1].pass
  /\ gateLog[2].key[3] = "high" /\ gateLog[2].pass
  /\ gateLog[2].now = gateLog[1].now
  /\ gateLog[3].key[3] = "high" /\ ~gateLog[3].pass
  /\ gateLog[3].now = gateLog[1].now
  /\ AskedOf(gateLog[3].call, "INDEX_RISK") = {3}
  /\ Len(events) = 2
  /\ \A t \in Threads : eth[t].pc = "idle"


\* ------------------------------------------------------------ PANIC_DROP
PanicMaxCalls == 4

\* A stock at 10 and at 4 in second 5 and at 20 in second 1 (the routes
\* take any timestamp); or at 4 and without a price.
PanicInputSets ==
  { { Snapshot(SH600000, 5, 10, 0, 100), Snapshot(SH600000, 5, 4, 0, 100),
      Snapshot(SH600000, 1, 20, 0, 100) },
    { Snapshot(SH600000, 5, 4, 0, 100), Snapshot(SH600000, 5, 0, 0, 100) } }

\* A window of 2 s, thresholds of 25% and 55%, a cooldown of 1 s, no key
\* level.
PanicInit ==
  /\ LimiterIdle
  /\ AlertIdle
  /\ LocksIdle
  /\ AdvisorIdle
  /\ \E ins \in PanicInputSets :
       EngineInit({[RawConfig(0, 1, 1, 25, 55) EXCEPT
                      !.KeyBreakDown.Levels = <<>>]},
                  ins, {TRUE}, {TRUE},
                  [calls |-> PanicMaxCalls, clock |-> 1])

\* The clock stands still: the rule reads the timestamps of the snapshots.
SpecPanic == PanicInit /\ [][StoreNext]_vars

\* The window after the last snapshot of h was appended.
WindowOf(c, h) ==
  SubSeq(h, Len(h) - Min(Len(h), c.WindowMaxKeep) + 1, Len(h))

\* The positions of w the scan reaches from the end of w: those with no
\* snapshot older than cutoff at or after them.
Scanned(w, cutoff) ==
  { i \in 1..Len(w) : \A j \in i..Len(w) : w[j].TS >= cutoff }

\* The largest price among the positions S of w, 0 without one above 0.
MaxPriceOf(w, S) ==
  IF \E i \in S : w[i].Price > 0
  THEN CHOOSE p \in {w[i].Price : i \in S} : \A i \in S : w[i].Price <= p
  ELSE 0

\* The severity PANIC_DROP fires with on the last snapshot of h, "" if it
\* does not fire: drawdown = (current - max) / max * 100 against the
\* thresholds, high first.
PanicSeverity(c, h) ==
  LET w == WindowOf(c, h)
      s == w[Len(w)]
      max == MaxPriceOf(w, Scanned(w, s.TS - c.PanicDrop.WindowSec))
  IN IF Len(w) < 2 \/ max <= 0 THEN ""
     ELSE IF (s.Price - max) * 100 <= -(c.PanicDrop.HighPct * max) THEN "high"
     ELSE IF (s.Price - max) * 100 <= -(c.PanicDrop.MedPct * max) THEN "med"
     ELSE ""

\* The severities of the PANIC_DROP firings of a producer.
PanicFirings(th) ==
  [i \in 1..Len(SelectSeq(th.todo, LAMBDA f : f.rule = "PANIC_DROP")) |->
     SelectSeq(th.todo, LAMBDA f : f.rule = "PANIC_DROP")[i].sev]

\* No PANIC_DROP event has a positive drawdown.
DrawdownNeverPositive ==
  \A e \in 1..Len(events) :
    events[e].Type = "PANIC_DROP" =>
      /\ events[e].Evidence.drawdown_den > 0
      /\ events[e].Evidence.drawdown_num <= 0

\* C33: PANIC_DROP fires for a snapshot of a stock only when the window
\* holds two snapshots or more and the largest price found by the scan from
\* the current snapshot back to the first snapshot older than current_ts -
\* window_sec is above 0; it fires high at a drawdown of high_pct or more,
\* else med at med_pct or more, else not; the drawdown is never positive.
C33_PanicDropByBackwardScan ==
  /\ []DrawdownNeverPositive
  /\ [][\A t \in Threads :
          RulesRan(t) =>
            LET sev == PanicSeverity(ecfg, Arrived(ingested', eth[t].s.Symbol))
            IN PanicFirings(eth'[t]) = IF sev = "" THEN <<>> ELSE <<sev>>]_vars

\* The stock came at 10 and fell to 4 within the second: PANIC_DROP high
\* with a drawdown of 60%. Then it came at 20 with a timestamp of four
\* seconds before, and again at 4: the scan stopped at the old snapshot and
\* the rule did not fire, the 10 in the window notwithstanding.
C33_Witness ==
  /\ Len(Arrived(ingested, SH600000)) = 4
  /\ Arrived(ingested, SH600000)[1].Price = 10
  /\ Arrived(ingested, SH600000)[2].Price = 4
  /\ Arrived(ingested, SH600000)[3].Price = 20
  /\ Arrived(ingested, SH600000)[4].Price = 4
  /\ Len(gateLog) = 1
  /\ gateLog[1].key = cooldownKey("PANIC_DROP", SH600000, "high")
  /\ gateLog[1].call = 2
  /\ Len(events) = 1
  /\ events[1].Evidence.drawdown_num = -600
  /\ events[1].Evidence.drawdown_den = 10
  /\ \A t \in Threads : eth[t].pc = "idle"


\* ------------------------------------------------------- the dedup key
KeyMaxCalls == 2

\* The index at -2% (med), -4% and -5% (high) while the clock goes from 1
\* to 2; a stock at 10, 4 and 3, the last with twenty times the volume
\* (PANIC_DROP, KEY_BREAK_DOWN and VOLUME_SPIKE) while the clock stands.
KeyInputSets ==
  { [ ins |-> { Snapshot(SH000001, 1, 10, -2, 100),
                Snapshot(SH000001, 1, 10, -4, 100),
                Snapshot(SH000001, 1, 10, -5, 100) },
      clock |-> 2 ],
    [ ins |-> { Snapshot(SH600000, 1, 10, 0, 100),
                Snapshot(SH600000, 1, 4, 0, 100),
                Snapshot(SH600000, 1, 3, 0, 2000) },
      clock |-> 1 ] }

\* Cooldowns of 1 s, PANIC_DROP at 25% / 55%, a key level of 8 for sh600000.
KeyInit ==
  /\ LimiterIdle
  /\ AlertIdle
  /\ LocksIdle
  /\ AdvisorIdle
  /\ \E in \in KeyInputSets :
       EngineInit({RawConfig(0, 1, 1, 25, 55)}, in.ins, {TRUE}, {TRUE},
                  [calls |-> KeyMaxCalls, clock |-> in.clock])

SpecKey == KeyInit /\ [][EngineNext]_vars

\* The discriminator as stated: the window-size tag when the evidence has
\* window_sec, else the level tag, else the threshold tag, else base.
Discriminator(e) ==
  CASE e.Type = "PANIC_DROP" -> <<"w", ecfg.PanicDrop.WindowSec>>
    [] e.Type = "KEY_BREAK_DOWN" -> <<"lvl", ecfg.KeyBreakDown.Levels[e.Symbol]>>
    [] e.Type = "INDEX_RISK" ->
         <<"thr", IF e.Severity = "high" THEN ecfg.IndexRisk.HighPct
                  ELSE ecfg.IndexRisk.MedPct>>
    [] OTHER -> <<"base">>

\* C34: the dedup key of an Event is made of rule type, symbol,
\* discriminator and severity: two events of one rule, symbol and severity
\* have the same key whatever values they carry, and two events that differ
\* in rule, symbol or severity have different keys.
C34_DedupKeyByRuleSymbolSeverity ==
  /\ \A e \in 1..Len(events) :
       events[e].DedupKey =
         <<events[e].Type, ":">> \o events[e].Symbol \o <<":">>
           \o Discriminator(events[e]) \o <<":", events[e].Severity>>
  /\ \A a, b \in 1..Len(events) :
       events[a].DedupKey = events[b].DedupKey
         <=> /\ events[a].Type = events[b].Type
             /\ events[a].Symbol = events[b].Symbol
             /\ events[a].Severity = events[b].Severity

\* Two events of one rule, symbol and severity that carry different
\* evidence and were raised by different calls have one key.
C34_Witness ==
  \E a, b \in 1..Len(events) :
    /\ events[a].Type = events[b].Type
    /\ events[a].Symbol = events[b].Symbol
    /\ events[a].Severity = events[b].Severity
    /\ events[a].Evidence # events[b].Evidence
    /\ events[a].call # events[b].call
    /\ events[a].DedupKey = events[b].DedupKey


\* ----------------------------------------------------- the merge flush
MergeMaxCalls == 3
MergeMaxClock == 2

\* A medium priority request with a dedup key and a low priority request
\* without one, sharing a merge key.
MergeInputs ==
  { AlertRequest(PriorityMed, "risk", "a", "d1", "m1", FALSE),
    AlertRequest(PriorityLow, "", "b", "", "m1", FALSE) }

\* A dedup window of two seconds, a merge window and a digest interval of
\* one second, a limiter of 15 per minute with a burst of one.
MergeInit ==
  /\ NewService(AlertConfig(2, 1, 1), 15, 1)
  /\ aenv = [send |-> {OkResponse}, insert |-> {"ok"}]
  /\ ainputs = MergeInputs
  /\ alim = MergeMaxCalls
  /\ mono = 0
  /\ allowLog = <<>>
  /\ blim = [calls |-> 0, clock |-> MergeMaxClock]
  /\ EngineIdle
  /\ LocksIdle
  /\ AdvisorIdle

\* The steps of medium and low priority calls, the merge timers and the
\* digest ticker.
MergeNext ==
  \/ \E h \in Callers :
       \/ Handle(h)
       \/ isDeduped(h)
       \/ enqueueMerge(h)
       \/ handleSendOrDigest(h)
       \/ addDigest(h)
       \/ sendNow(h)
       \/ \E id \in timers : flushMerge(h, id)
  \/ flushDigest
  \/ TickMono

SpecMerge == MergeInit /\ [][MergeNext]_vars

\* The Handle calls made by merge flushes.
Resubmissions == {c \in 1..Len(calls) : calls[c].by # 0}

\* C35: the request resubmitted by a merge flush has empty merge and dedup
\* keys; its Handle call is never asked about dedup and never enqueued for
\* merging, it ends in sent or queued_digest and arms no timer, and one
\* merge window makes exactly one resubmission, so the chain ends there.
C35_ResubmissionEndsTheChain ==
  /\ \A c \in Resubmissions :
       /\ calls[c].req.MergeKey = "" /\ calls[c].req.DedupKey = ""
       /\ Has(results, c) =>
            results[c].Status \in {StatusSent, StatusQueuedDigest}
       /\ effects[c].merge = 0
       /\ \A i \in 1..Len(dedupLog) : dedupLog[i].call # c
       /\ \A i \in 1..Len(armed) : armed[i].call # c
       /\ \A d \in Resubmissions : calls[d].by = calls[c].by => d = c
  /\ \A h \in FlushCallers : hth[h].pc \notin {"dedup", "merge"}
  /\ \A f \in 1..Len(flushes) :
       /\ flushes[f].found /\ Len(flushes[f].members) > 0
            => flushes[f].call \in Resubmissions
                 /\ calls[flushes[f].call].by = flushes[f].timer
       /\ \A g \in 1..Len(flushes) :
            flushes[g].timer = flushes[f].timer => g = f

\* Two requests were merged, one of them with a dedup key, the flush
\* resubmitted them within the dedup window of that key, and the
\* resubmission was sent; the resubmission of a later merge window was
\* queued for the digest.
C35_Witness ==
  \E c, d \in Resubmissions :
    /\ Has(results, c) /\ results[c].Status = StatusSent
    /\ Has(results, d) /\ results[d].Status = StatusQueuedDigest
    /\ \E f \in 1..Len(flushes) :
         /\ flushes[f].call = c
         /\ Len(flushes[f].members) = 2
         /\ \E j \in 1..2 : flushes[f].members[j].req.DedupKey # ""


\* ------------------------------------------ silent requests leave no trace
\* The last step was the Handle call of a silent request.
SilentHandled ==
  /\ Len(calls') = Len(calls) + 1
  /\ calls'[Len(calls')].req.Silent

\* The state of the pipeline: dedup map, merge states and their timers,
\* digest buckets and ticker, the token bucket, the calls inside Handle.
pipeline == <<dedup, merge, armed, timers, digest, digestDue, limiter, hth>>

\* No silent request is pending anywhere, none has asked isDeduped, and a
\* request is suppressed only by an earlier request, not silent, that
\* passed with its key within the window.
SilentNeverPending ==
  /\ \A k \in DOMAIN merge : \A i \in 1..Len(merge[k]) : ~merge[k][i].req.Silent
  /\ \A g \in DOMAIN digest :
       \A i \in 1..Len(digest[g]) : ~digest[g][i].req.Silent
  /\ \A i \in 1..Len(dedupLog) :
       /\ ~calls[dedupLog[i].call].req.Silent
       /\ ~dedupLog[i].pass =>
            \E j \in 1..(i - 1) :
              /\ dedupLog[j].pass
              /\ dedupLog[j].key = dedupLog[i].key
              /\ dedupLog[i].now - dedupLog[j].now <= acfg.DedupWindow

\* C36: the Handle call of a silent request changes nothing of the
\* pipeline: dedup map, merge states, timers, digest buckets and token
\* bucket stay as they were; so no pending list holds a silent request and
\* a request is never suppressed on account of a silent one.
C36_SilentChangesNothing ==
  /\ []SilentNeverPending
  /\ [][SilentHandled => pipeline' = pipeline]_vars

\* A silent request with a dedup key and a merge key was handled while
\* nothing was recorded, and the next request, not silent and with the same
\* dedup key, passed isDeduped first of all and was sent.
C36_Witness ==
  \E c \in 1..(Len(calls) - 1) :
    /\ calls[c].req.Silent
    /\ calls[c].req.DedupKey = "d1" /\ calls[c].req.MergeKey = "m1"
    /\ ~calls[c + 1].req.Silent
    /\ calls[c + 1].req.DedupKey = "d1"
    /\ Len(dedupLog) > 0
    /\ dedupLog[1].call = c + 1 /\ dedupLog[1].pass
    /\ Has(results, c + 1) /\ results[c + 1].Status = StatusSent


\* ------------------------------------------------ a stream of duplicates
DupMaxCalls == 3
DupMaxClock == 2

\* A medium and a low priority request with the same dedup key.
DupInputs ==
  { AlertRequest(PriorityMed, "risk", "a", "d1", "", FALSE),
    AlertRequest(PriorityLow, "risk", "b", "d1", "", FALSE) }

\* A dedup window and a digest interval of one second, no merge window, a
\* limiter of 15 per minute with a burst of one.
DupInit ==
  /\ NewService(AlertConfig(1, 0, 1), 15, 1)
  /\ aenv = [send |-> {OkResponse}, insert |-> {"ok"}]
  /\ ainputs = DupInputs
  /\ alim = DupMaxCalls
  /\ mono = 0
  /\ allowLog = <<>>
  /\ blim = [calls |-> 0, clock |-> DupMaxClock]
  /\ EngineIdle
  /\ LocksIdle
  /\ AdvisorIdle

\* The steps of calls with a dedup key and without a merge key, and the
\* digest ticker.
DupNext ==
  \/ \E h \in ApiCallers :
       \/ Handle(h)
       \/ isDeduped(h)
       \/ handleSendOrDigest(h)
       \/ addDigest(h)
       \/ sendNow(h)
  \/ flushDigest
  \/ TickMono

SpecDup == DupInit /\ [][DupNext]_vars

\* The entries of isDeduped before entry i that let the key of i through.
PassesBefore(i) ==
  { j \in 1..(i - 1) : dedupLog[j].pass /\ dedupLog[j].key = dedupLog[i].key }

LastPassBefore(i) == CHOOSE j \in PassesBefore(i) : \A l \in PassesBefore(i) : l <= j

\* An occurrence is suppressed exactly when its clock reading is at most the
\* window after the reading of the last occurrence that was let through,
\* and the map holds the reading of that occurrence.
MeasuredFromLastPass ==
  /\ \A i \in 1..Len(dedupLog) :
       dedupLog[i].pass <=>
         \/ PassesBefore(i) = {}
         \/ dedupLog[i].now - dedupLog[LastPassBefore(i)].now > acfg.DedupWindow
  /\ \A i \in 1..Len(dedupLog) :
       dedupLog[i].pass
         /\ (\A j \in (i + 1)..Len(dedupLog) :
               dedupLog[j].key = dedupLog[i].key => ~dedupLog[j].pass)
         => dedup[dedupLog[i].key] = dedupLog[i].now

\* The last step was an isDeduped that suppressed its request.
DedupSuppressed ==
  /\ Len(dedupLog') = Len(dedupLog) + 1
  /\ ~dedupLog'[Len(dedupLog')].pass

\* C37: a request suppressed by dedup leaves the recorded time of its key,
\* the merge states, the digest buckets and the token bucket as they were;
\* a request is suppressed exactly when it comes at most the window after
\* the last occurrence that was let through, so one coming exactly at the
\* window length is suppressed and one coming later is let through.
C37_SuppressedDoesNotRefresh ==
  /\ []MeasuredFromLastPass
  /\ [][DedupSuppressed =>
          /\ dedup' = dedup
          /\ <<merge, armed, timers, digest, digestDue, limiter>>'
               = <<merge, armed, timers, digest, digestDue, limiter>>]_vars

\* Three occurrences of a key one second apart with a window of one second:
\* the first was let through, the second, exactly at the window length, was
\* suppressed, and the third, one second after the suppressed one, was let
\* through.
C37_Witness ==
  /\ Len(dedupLog) = 3
  /\ dedupLog[1].pass /\ ~dedupLog[2].pass /\ dedupLog[3].pass
  /\ dedupLog[2].now - dedupLog[1].now = acfg.DedupWindow
  /\ dedupLog[3].now - dedupLog[2].now = acfg.DedupWindow
  /\ dedup["d1"] = dedupLog[3].now


\* ------------------------------------------------- every call returns
LiveMaxCalls == 3
LiveMaxClock == 4

\* The service of WaitInit with its own bounds.
LiveInit ==
  /\ NewService(AlertConfig(1, 1, 2), 15, 1)
  /\ aenv = [send |-> {OkResponse}, insert |-> {"ok"}]
  /\ ainputs = WaitInputs
  /\ alim = LiveMaxCalls
  /\ mono = 0
  /\ allowLog = <<>>
  /\ blim = [calls |-> 0, clock |-> LiveMaxClock]
  /\ EngineIdle
  /\ LocksIdle
  /\ AdvisorIdle

\* The steps of the call that handler h runs.
StepsOf(h) ==
  \/ handleSendOrDigest(h)
  \/ WaitForToken(h)
  \/ addDigest(h)
  \/ sendNow(h)

\* The scheduler runs every goroutine that can run, the goroutine of the
\* digest ticker included, and the clock goes on.
SpecLive ==
  /\ LiveInit
  /\ [][WaitNext]_vars
  /\ \A h \in ApiCallers : WF_vars(StepsOf(h))
  /\ WF_vars(flushDigest)
  /\ WF_vars(TickMono)

\* Handler h runs a call that the clock of the behaviour leaves time to end:
\* a waiting call has its deadline before the last clock reading, any other
\* would have if it started to wait now.
InTime(h) ==
  /\ hth[h].pc # "idle"
  /\ IF hth[h].pc = "wait" THEN hth[h].deadline < blim.clock
     ELSE mono + WaitSeconds * TicksPerSec < blim.clock

\* Only high priority calls wait, and a waiting call is at most one clock
\* reading past its deadline, which is two seconds after its start.
WaitIsBounded ==
  \A h \in Callers :
    hth[h].pc = "wait" =>
      /\ hth[h].req.Priority = PriorityHigh
      /\ hth[h].deadline <= mono + WaitSeconds * TicksPerSec
      /\ mono <= hth[h].deadline + 1

\* C38: every Handle call returns: a call that is inside Handle is
\* eventually outside, whatever the other callers take from the bucket;
\* only a high priority call waits, for two seconds and no longer than up
\* to the first clock reading after them.
C38_HandleTerminates ==
  /\ []WaitIsBounded
  /\ \A h \in ApiCallers : InTime(h) ~> (hth[h].pc = "idle")

\* A high priority call waited its two seconds through while another call
\* held the only token, and returned queued_digest; a medium priority call
\* refused by the limiter returned without waiting.
C38_Witness ==
  /\ \E c \in DOMAIN waits :
       /\ waits[c].high /\ waits[c].done /\ ~waits[c].got
       /\ waits[c].waited > WaitSeconds * TicksPerSec
       /\ Returned(c)
  /\ \E c \in DOMAIN waits : ~waits[c].high /\ Returned(c)


\* ------------------------------------------------ an engine without a store
\* The calls that have appended their snapshot.
Appended == ncalls - Cardinality({t \in Threads : eth[t].pc = "append"})

MarketMaxCalls == 3
MarketMaxClock == 3

\* part_003:137-149: every symbol asked for must be in the cache.
getFromCacheLocked(c, symbols) ==
  IF \A i \in 1..Len(symbols) : symbols[i] \in c THEN "ok" ELSE "cache miss"

\* part_003:56: the test that answers a call from the cache. The zero time
\* lies further back than any interval.
insideInterval(now, last, interval) ==
  interval > 0 /\ ~last.zero /\ now - last.at < interval

\* What a call returned: the quotes come from the cache or from the
\* provider, or the call failed.
Answer(call, cached, err) == [call |-> call, cached |-> cached, err |-> err]

\* The calls of GetQuotesWithMeta made so far: those that returned and
\* those under way.
QuoteCalls ==
  Len(answers) + Cardinality({h \in QuoteCallers : qth[h].pc # "idle"})

\* part_003:45-54: the caller enters with its symbols; without symbols the
\* call fails at once, else it reads the clock.
GetQuotesWithMeta(g) ==
  /\ qth[g].pc = "idle"
  /\ QuoteCalls < qlim.calls
  /\ \E symbols \in qlim.inputs :
       LET call == QuoteCalls + 1 IN
       IF Len(symbols) = 0
       THEN /\ answers' = Append(answers, Answer(call, FALSE, "symbols is empty"))
            /\ UNCHANGED qth
       ELSE /\ qth' = [qth EXCEPT ![g] = [pc |-> "check", call |-> call,
                                          symbols |-> symbols, now |-> marketNow]]
            /\ UNCHANGED answers
  /\ UNCHANGED <<minInterval, lastFetch, cache, consecutiveFailures, marketNow,
                 fetches, qlim>>
  /\ UNCHANGED <<evars, bvars, avars, lvars, dpool, decisions, wvars>>

\* part_003:55-65: under s.mu, a call inside the interval is answered from
\* the cache; any other leaves the lock to call the provider.
checkInterval(g) ==
  /\ qth[g].pc = "check"
  /\ IF insideInterval(qth[g].now, lastFetch, minInterval)
     THEN /\ answers' = Append(answers,
               LET err == getFromCacheLocked(cache, qth[g].symbols) IN
               Answer(qth[g].call, err = "ok", IF err = "ok" THEN "" ELSE err))
          /\ qth' = [qth EXCEPT ![g] = IdleQuoteCaller]
     ELSE /\ qth' = [qth EXCEPT ![g].pc = "call"]
          /\ UNCHANGED answers
  /\ UNCHANGED <<minInterval, lastFetch, cache, consecutiveFailures, marketNow,
                 fetches, qlim>>
  /\ UNCHANGED <<evars, bvars, avars, lvars, dpool, decisions, wvars>>

\* part_003:67: the request goes out to the provider.
providerGetQuotes(g) ==
  /\ qth[g].pc = "call"
  /\ fetches' = Append(fetches, [call |-> qth[g].call, at |-> marketNow])
  /\ qth' = [qth EXCEPT ![g].pc = "reply"]
  /\ UNCHANGED <<minInterval, lastFetch, cache, consecutiveFailures, marketNow,
                 answers, qlim>>
  /\ UNCHANGED <<evars, bvars, avars, lvars, dpool, decisions, wvars>>

\* part_003:68-87: the provider answers. Quotes are cached and the time of
\* the answer is recorded; after a failure the failures are counted and the
\* cache is tried, and lastFetch is left alone.
providerReplies(g) ==
  /\ qth[g].pc = "reply"
  /\ \E ok \in BOOLEAN :
       IF ok
       THEN /\ cache' = cache \cup {qth[g].symbols[i] : i \in 1..Len(qth[g].symbols)}
            /\ lastFetch' = [zero |-> FALSE, at |-> marketNow]
            /\ consecutiveFailures' = 0
            /\ answers' = Append(answers, Answer(qth[g].call, FALSE, ""))
       ELSE /\ consecutiveFailures' = consecutiveFailures + 1
            /\ answers' = Append(answers,
                 LET err == getFromCacheLocked(cache, qth[g].symbols) IN
                 Answer(qth[g].call, err = "ok",
                        IF err = "ok" THEN "" ELSE "provider failed"))
            /\ UNCHANGED <<cache, lastFetch>>
  /\ qth' = [qth EXCEPT ![g] = IdleQuoteCaller]
  /\ UNCHANGED <<minInterval, marketNow, fetches, qlim>>
  /\ UNCHANGED <<evars, bvars, avars, lvars, dpool, decisions, wvars>>

\* The clock of the market service advances.
TickMarket ==
  /\ marketNow < qlim.clock
  /\ marketNow' = marketNow + 1
  /\ UNCHANGED <<minInterval, lastFetch, cache, consecutiveFailures, qth,
                 fetches, answers, qlim>>
  /\ UNCHANGED <<evars, bvars, avars, lvars, dpool, decisions, wvars>>

\* part_003:25-36 with a provider and a minimum interval of two clock
\* readings; callers ask for the index, for the index and a stock, or for
\* nothing.
MarketInit ==
  /\ LimiterIdle
  /\ AlertIdle
  /\ LocksIdle
  /\ EngineIdle
  /\ dpool = {}
  /\ decisions = <<>>
  /\ SlicesIdle
  /\ minInterval = 2
  /\ lastFetch = ZeroTime
  /\ cache = {}
  /\ consecutiveFailures = 0
  /\ marketNow = 0
  /\ qth = [g \in QuoteCallers |-> IdleQuoteCaller]
  /\ fetches = <<>>
  /\ answers = <<>>
  /\ qlim = [calls |-> MarketMaxCalls, clock |-> MarketMaxClock,
             inputs |-> {<<>>, <<SH000001>>, <<SH000001, SH600000>>}]

MarketNext ==
  \/ \E g \in QuoteCallers :
       \/ GetQuotesWithMeta(g)
       \/ checkInterval(g)
       \/ providerGetQuotes(g)
       \/ providerReplies(g)
  \/ TickMarket

SpecMarket == MarketInit /\ [][MarketNext]_vars

\* C40: with a minimum request interval, two calls of the provider are
\* never issued less than the interval apart, whatever the interleaving of
\* the callers and whether fetches fail or not.
C40_MinIntervalHonoured ==
  minInterval > 0 =>
    \A i, j \in 1..Len(fetches) :
      i < j => fetches[j].at - fetches[i].at >= minInterval

====
